---- MODULE Spec2Model ----
(***************************************************************************)
(* Revision-based synchronisation of one payload between localStorage and  *)
(* a chunked remote key-value store (src/src/lib/telegram.ts, second half) *)
(* and its revision tracker SyncStatusManager (src/unnamed/part_000).      *)
(*                                                                         *)
(* JavaScript runs one task at a time: an async function runs without      *)
(* interruption from one await to the next.  Each action below is one such *)
(* run: it ends where the code awaits a remote operation, and the next     *)
(* action of the same task starts when that operation settles.             *)
(***************************************************************************)
EXTENDS Integers, Sequences, FiniteSets, TLC

VARIABLES status, localStorage, cloud, task, sinceLastSyncAttempt,
          periodicSyncInterval, activeTimers, pendingTimeouts, ret, fullWrites,
          recordWrites, splitter, call, clearing, subs, chunked

vars == <<status, localStorage, cloud, task, sinceLastSyncAttempt,
          periodicSyncInterval, activeTimers, pendingTimeouts, ret, fullWrites,
          recordWrites, splitter, call, clearing, subs, chunked>>

-----------------------------------------------------------------------------
(* Bounds of the model *)

\* payload characters are drawn from 1..NumSymbols
NumSymbols == 1
\* longest payload a caller saves
MaxLen == 3
\* saveDataLocally is not called once revisionLocal has reached MaxRev
MaxRev == 2
\* passes of tryWriteToCloud / tryReadFromCloud that may be in flight at
\* once: MaxInFlight under Spec and SpecHistory, NumTasks under SpecOverlap
MaxInFlight == 1
NumTasks == 2
\* setTimeout(tryWriteToCloud, 0) callbacks that may be waiting to run
MaxPending == 1
\* the clock advances in steps of ClockStep milliseconds
ClockStep == 5000

(* Program constants.  MAX_CHUNK_SIZE is 2000 in the source; the model     *)
(* scales it down so that payloads of a few characters span several chunks. *)
MAX_CHUNK_SIZE == 2
MIN_SYNC_INTERVAL == 5000
CLEANUP_LIMIT == 10

-----------------------------------------------------------------------------
(* Optional values: null / undefined is None, a present value v is Some(v) *)

None == <<>>
Some(v) == <<v>>
IsSome(o) == o # <<>>
Val(o) == o[1]

Symbols == 1..NumSymbols
Tasks == 1..NumTasks

\* the string made of len copies of the character c
Repeat(c, len) == [i \in 1..len |-> c]

\* the payloads callers save: the empty string and uniform strings
Payloads == {Repeat(c, len) : c \in Symbols, len \in 0..MaxLen}

Min(a, b) == IF a < b THEN a ELSE b

-----------------------------------------------------------------------------
(* Number <-> decimal text, as localStorage keeps the counters *)

\* a text is a sequence of characters: the digits 0..9 and the minus sign
MinusSign == 10

\* n.toString() of an integer
RECURSIVE NumToString(_)
NumToString(n) ==
    IF n < 0 THEN <<MinusSign>> \o NumToString(0 - n)
    ELSE IF n < 10 THEN <<n>>
    ELSE Append(NumToString(n \div 10), n % 10)

RECURSIVE ParseDigits(_, _)
ParseDigits(s, acc) ==
    IF s = <<>> THEN acc ELSE ParseDigits(Tail(s), acc * 10 + Head(s))

\* parseInt(text, 10) || 0 of a stored counter (an optional minus sign and
\* a run of decimal digits)
ParseInt(s) ==
    IF s # <<>> /\ Head(s) = MinusSign THEN 0 - ParseDigits(Tail(s), 0)
    ELSE ParseDigits(s, 0)

-----------------------------------------------------------------------------
(* JavaScript values handed to setLocalRevision / setServerRevision *)

JSNumber(n) == [type |-> "number", val |-> n]
JSNaN == [type |-> "nan", val |-> 0]
JSUndefined == [type |-> "undefined", val |-> 0]

\* typeof revision === 'number' && !isNaN(revision)
IsValidRevision(x) == x.type = "number"

-----------------------------------------------------------------------------
(* SyncStatusManager.  Every method is an operator from the world          *)
(* w = [status, ls] (the tracker's status and localStorage) to the world   *)
(* after the call.  The Date fields and the listeners are left out.        *)

InitialStatus ==
    [hasUnsavedChanges |-> FALSE, isSyncing |-> FALSE,
     revisionLocal |-> 0, revisionServer |-> 0, lastSyncError |-> None]

loadRevisions(w) ==
    LET l == IF IsSome(w.ls.cards_revision)
             THEN ParseInt(Val(w.ls.cards_revision)) ELSE 0
        s == IF IsSome(w.ls.cards_server_revision)
             THEN ParseInt(Val(w.ls.cards_server_revision)) ELSE 0
    IN [w EXCEPT !.status.revisionLocal = l,
                 !.status.revisionServer = s,
                 !.status.hasUnsavedChanges = (l > s)]

\* setLocalRevision had it left out the localStorage.setItem of the counter
setLocalRevision_NotPersisted(w, revision) ==
    LET n == IF IsValidRevision(revision) THEN revision.val ELSE 0
    IN [w EXCEPT !.status.revisionLocal = n,
                 !.status.hasUnsavedChanges = (n > w.status.revisionServer)]

setLocalRevision(w, revision) ==
    LET n == IF IsValidRevision(revision) THEN revision.val ELSE 0
    IN [w EXCEPT !.status.revisionLocal = n,
                 !.status.hasUnsavedChanges = (n > w.status.revisionServer),
                 !.ls.cards_revision = Some(NumToString(n))]

\* setServerRevision had it stored the server revision without recomputing the flag
setServerRevision_NoRecompute(w, revision) ==
    LET n == IF IsValidRevision(revision) THEN revision.val ELSE 0
    IN [w EXCEPT !.status.revisionServer = n,
                 !.ls.cards_server_revision = Some(NumToString(n))]

setServerRevision(w, revision) ==
    LET n == IF IsValidRevision(revision) THEN revision.val ELSE 0
    IN [w EXCEPT !.status.revisionServer = n,
                 !.status.hasUnsavedChanges = (w.status.revisionLocal > n),
                 !.ls.cards_server_revision = Some(NumToString(n))]

\* incrementLocalRevision had it raised and stored the counter itself
\* (revisionLocal++) instead of going through setLocalRevision
incrementLocalRevision_NoRecompute(w) ==
    [w EXCEPT !.status.revisionLocal = w.status.revisionLocal + 1,
              !.ls.cards_revision = Some(NumToString(w.status.revisionLocal + 1))]

incrementLocalRevision(w) ==
    setLocalRevision(w, JSNumber(w.status.revisionLocal + 1))

markAsSyncing(w) ==
    [w EXCEPT !.status.isSyncing = TRUE, !.status.lastSyncError = None]

\* markAsSynced() without an argument
markAsSyncedNoArg(w) ==
    [w EXCEPT !.status.isSyncing = FALSE,
              !.status.lastSyncError = None,
              !.status.hasUnsavedChanges =
                  (w.status.revisionLocal > w.status.revisionServer)]

\* markAsSynced(serverRevision)
markAsSynced(w, serverRevision) ==
    markAsSyncedNoArg(setServerRevision(w, JSNumber(serverRevision)))

\* markSyncFailed had it cleared hasUnsavedChanges as markAsSynced may
markSyncFailed_ClearsUnsaved(w, error) ==
    [w EXCEPT !.status.isSyncing = FALSE, !.status.lastSyncError = error,
              !.status.hasUnsavedChanges = FALSE]

\* markSyncFailed(error): error is Some(message), or None for undefined
markSyncFailed(w, error) ==
    [w EXCEPT !.status.isSyncing = FALSE, !.status.lastSyncError = error]

\* markDataUpdatedFromServer had it adopted the server's counter as
\* setServerRevision does, leaving revisionLocal alone
markDataUpdatedFromServer_ServerOnly(w, serverRevision) ==
    [w EXCEPT !.status.revisionServer = serverRevision,
              !.status.hasUnsavedChanges = (w.status.revisionLocal > serverRevision),
              !.ls.cards_server_revision = Some(NumToString(serverRevision))]

markDataUpdatedFromServer(w, serverRevision) ==
    [w EXCEPT !.status.revisionLocal = serverRevision,
              !.status.revisionServer = serverRevision,
              !.status.hasUnsavedChanges = FALSE,
              !.ls.cards_revision = Some(NumToString(serverRevision)),
              !.ls.cards_server_revision = Some(NumToString(serverRevision))]

reset(w) ==
    [w EXCEPT !.status = InitialStatus,
              !.ls.cards_revision = None,
              !.ls.cards_server_revision = None]

needsCloudRead(w) == w.status.revisionLocal <= w.status.revisionServer

needsCloudWrite(w) == w.status.revisionLocal > w.status.revisionServer

\* the world the running code sees
World == [status |-> status, ls |-> localStorage]

-----------------------------------------------------------------------------
(* The remote store behind storage.getItem / setItem / removeItem.  Keys   *)
(* cards_batch_i exist in the model for i < NumSlots; larger keys are      *)
(* never written, so reading or removing them finds nothing.               *)

\* slices a payload of MaxLen characters needs
NumSlots == (MaxLen + MAX_CHUNK_SIZE - 1) \div MAX_CHUNK_SIZE
Slots == 0..(NumSlots - 1)

\* meta is cards_meta (parsed), batch the keys cards_batch_i of the current
\* layout, oldBatch the keys cards_cardsBatchi an earlier version wrote
EmptyCloud ==
    [meta |-> None, batch |-> [i \in Slots |-> None],
     oldBatch |-> [i \in Slots |-> None]]

\* TelegramCloudStorage.getItem resolves (result || null): '' reads as null
CloudValue(o) == IF o = Some(<<>>) THEN None ELSE o

getBatch(c, i) == IF i \in Slots THEN CloudValue(c.batch[i]) ELSE None

setBatch(c, i, value) == [c EXCEPT !.batch[i] = Some(value)]

removeBatch(c, i) == IF i \in Slots THEN [c EXCEPT !.batch[i] = None] ELSE c

getOldBatch(c, i) == IF i \in Slots THEN CloudValue(c.oldBatch[i]) ELSE None

removeOldBatch(c, i) == IF i \in Slots THEN [c EXCEPT !.oldBatch[i] = None] ELSE c

CloudMetadata(revision, batches) ==
    [version |-> 1, revision |-> revision, batches |-> batches]

\* the metadata of the old format: {cardsBatches: n}
OldMetadata(cardsBatches) == [cardsBatches |-> cardsBatches]

\* parsedMeta.cardsBatches && !parsedMeta.revision
IsOldFormat(parsedMeta) ==
    /\ "cardsBatches" \in DOMAIN parsedMeta
    /\ parsedMeta.cardsBatches # 0
    /\ ~("revision" \in DOMAIN parsedMeta /\ parsedMeta.revision # 0)

\* parsedMeta.revision !== undefined
HasRevision(parsedMeta) == "revision" \in DOMAIN parsedMeta

\* meta.revision as a JavaScript value
MetaRevision(parsedMeta) ==
    IF HasRevision(parsedMeta) THEN JSNumber(parsedMeta.revision) ELSE JSUndefined

\* how a remote read settles, and how a remote write or removal settles:
\* it resolves ("ok"), or it rejects: with the backend's error or a timeout
\* that the call never reached it ("error"), or with a timeout after the
\* backend applied the call ("timeout_applied")
GetOutcomes == {"ok", "fail"}
SetOutcomes == {"ok", "error", "timeout_applied"}
Applied(outcome) == outcome \in {"ok", "timeout_applied"}

\* error.message of a rejected remote call; the model keeps one message for
\* the backend's error texts and 'Operation timed out'
ErrorMessage(outcome) == Some("remote call failed")

-----------------------------------------------------------------------------
(* Splitting and joining *)

\* data.slice(from, to) had the end index been taken as inclusive
Slice_Inclusive(data, from, to) == SubSeq(data, from + 1, Min(to + 1, Len(data)))

\* data.slice(from, to) with 0-based from, exclusive to
Slice(data, from, to) == SubSeq(data, from + 1, Min(to, Len(data)))

\* for (i = 0; i < data.length; i += size) batches.push(data.slice(i, i + size))
RECURSIVE SliceLoop(_, _, _)
SliceLoop(data, i, size) ==
    IF i < Len(data)
    THEN <<Slice(data, i, i + size)>> \o SliceLoop(data, i + size, size)
    ELSE <<>>

\* the loop with the program's MAX_CHUNK_SIZE
SplitFrom(data, i) == SliceLoop(data, i, MAX_CHUNK_SIZE)

Split(data) == SplitFrom(data, 0)

\* batches.join('')
RECURSIVE Join(_)
Join(batches) ==
    IF batches = <<>> THEN <<>> ELSE Head(batches) \o Join(Tail(batches))

\* The split loop and the join on their own, for any chunk size: splitter
\* holds the chunk size, the data to split, the batches once split and the
\* data joined from them
NoSplit == [size |-> MAX_CHUNK_SIZE, localData |-> <<>>, batches |-> None, fullData |-> None]

\* One call of TelegramCloudStorage.setItem / getItem / removeItem on its
\* own.  operation is operationPromise, timeout is timeoutPromise, race is
\* Promise.race of the two ("pending", "resolved" or "rejected"); error is
\* the reason of race's rejection and result the value it resolved with.
\* backend: "received" (the backend has the request), "applied" (it has
\* carried it out; its callback is still to come), "answered" (the callback
\* has been invoked).  awaited: the caller's await has returned or thrown.
NoCall ==
    [op |-> "none", key |-> 0, value |-> <<>>, operation |-> "pending",
     timeout |-> "pending", race |-> "pending", error |-> None, result |-> None,
     backend |-> "none", awaited |-> TRUE]

\* RemoteStore.clear() on its own: promise is the promise clear() returns,
\* removing the keys whose removeItem has not settled
\* enumerated the keys getKeys gave
NoClear ==
    [state |-> "none", enumerated |-> {}, removing |-> {}, promise |-> "pending"]

\* The listeners of SyncStatusManager.  listeners is the Set in insertion
\* order.  For the last call: its name (call) and callback (arg), how often
\* each callback was invoked in it (invoked), the status passed last
\* (passed), the callbacks that threw (threw).  subscribed: the callbacks
\* subscribed with no unsubscribe function of theirs called since;
\* handles: those an unsubscribe function was returned for.
NumCallbacks == 2
Callbacks == 1..NumCallbacks

NoSubs ==
    [listeners |-> <<>>, subscribed |-> {}, handles |-> {},
     invoked |-> [c \in Callbacks |-> 0], passed |-> None, threw |-> {},
     call |-> "none", arg |-> 0]

\* the optimistic chunked store of storage.ts, for one key.  local is
\* localStorage[key_local]; hasUnsavedChanges and isSyncing are the status
\* of the SyncStatusManager storage.ts imports (src/unnamed/part_001);
\* store is what the backend holds under key, key_meta and
\* key_cardsBatch<i>; timers are the values of the pending
\* setTimeout(syncToCloudBackground) callbacks, oldest first; sync are the
\* background syncs, get is the getChunkedItem call in flight.  sets counts
\* the setChunkedItem calls that returned and lastSet is the value of the
\* last of them; result describes the last return of getChunkedItem: the
\* value returned, lastSet when the call was issued (expect), whether a
\* setChunkedItem ran while the call was in flight (racing) and
\* localStorage[key_local] at the return (local).
MaxSets == 2
SyncIds == 1..MaxSets
\* two values of one chunk and one of two chunks
ChunkedValues == {<<1>>, <<2>>, Repeat(1, MAX_CHUNK_SIZE) \o <<2>>}
NumChunkSlots == 2
ChunkSlots == 0..(NumChunkSlots - 1)

EmptyStore == [regular |-> None, meta |-> None, batch |-> [i \in ChunkSlots |-> None]]

IdleSync == [pc |-> "idle", value |-> <<>>, chunks |-> <<>>, n |-> 0, i |-> 0]

IdleGet == [pc |-> "idle", n |-> 0, i |-> 0, chunks |-> <<>>, expect |-> None,
            racing |-> FALSE]

NoResult == [returned |-> FALSE, value |-> None, expect |-> None, racing |-> FALSE,
             local |-> None]

NoChunked ==
    [local |-> None, hasUnsavedChanges |-> FALSE, isSyncing |-> FALSE,
     store |-> EmptyStore, timers |-> <<>>, sync |-> [s \in SyncIds |-> IdleSync],
     get |-> IdleGet, sets |-> 0, lastSet |-> None, result |-> NoResult]

-----------------------------------------------------------------------------
(* Tasks: the passes of tryWriteToCloud and tryReadFromCloud in flight *)

\* a new pass takes the first free task: which free task runs it is of no
\* consequence
FirstIdle(p) ==
    /\ task[p].pc = "idle"
    /\ \A q \in Tasks : q < p => task[q].pc # "idle"

\* old: the batches are read under the old key prefix; localData and
\* parsedLocalRevision: what initializeStorage read at its start
IdleTask ==
    [pc |-> "idle", caller |-> "none", batches |-> <<>>, i |-> 0,
     newRevision |-> 0, meta |-> None, old |-> FALSE,
     localData |-> None, parsedLocalRevision |-> 0]

\* ret tells what the last step was: the task that took it, how the remote
\* call it had awaited settled (io), and, when a call returned in it, which
\* return of tryWriteToCloud (write) or of tryReadFromCloud (read) was taken
\* and the value returned (ok, data).  NoReturn: a step of no task.
\* For initializeStorage: the return taken (init) and the value returned
\* (initData); for migrateOldDataToNewFormat: its result (migrated).
\* For the callback of the periodic timer (tick): "pushed" when it called
\* tryWriteToCloud in the step, "skipped" when it did not.
NoReturn ==
    [task |-> 0, io |-> "none", write |-> "none", ok |-> FALSE,
     read |-> "none", data |-> None, init |-> "none", initData |-> None,
     migrated |-> "none", tick |-> "none"]

\* task p resumed after its remote call settled with io, and awaits again
Resumed(p, io) == [NoReturn EXCEPT !.task = p, !.io = io]

WriteReturn(p, io, path, ok) ==
    [NoReturn EXCEPT !.task = p, !.io = io, !.write = path, !.ok = ok]

\* r, in a step where caller called tryWriteToCloud
CalledBy(caller, r) ==
    [r EXCEPT !.tick = IF caller = "periodic" THEN "pushed" ELSE "none"]

\* the state a step leaves behind: w is the world after the step
Leave(w, c, t, r) ==
    /\ status' = w.status
    /\ localStorage' = w.ls
    /\ cloud' = c
    /\ task' = t
    /\ ret' = r

\* periodicSyncInterval is the handle the module keeps (TRUE for a timer id,
\* FALSE for null); activeTimers counts the setInterval timers that are live
UnchangedTimer == UNCHANGED <<periodicSyncInterval, activeTimers>>
Unchanged3 == UNCHANGED <<sinceLastSyncAttempt, pendingTimeouts>> /\ UnchangedTimer
\* the variables of the parts modelled on their own
KeepOthers == UNCHANGED <<splitter, call, clearing, subs, chunked>>
KeepHistory == UNCHANGED <<fullWrites, recordWrites>> /\ KeepOthers

\* startPeriodicSync had it set a timer without looking at the handle
startPeriodicSync_NoGuard ==
    /\ periodicSyncInterval' = TRUE
    /\ activeTimers' = activeTimers + 1

\* startPeriodicSync(): a timer is set unless the handle holds one
startPeriodicSync ==
    IF periodicSyncInterval
    THEN UnchangedTimer
    ELSE /\ periodicSyncInterval' = TRUE
         /\ activeTimers' = activeTimers + 1

\* stopPeriodicSync(): the timer of the handle is cleared
stopPeriodicSync ==
    IF periodicSyncInterval
    THEN /\ periodicSyncInterval' = FALSE
         /\ activeTimers' = activeTimers - 1
    ELSE UnchangedTimer

\* a value JavaScript takes for true: neither null nor ''
Truthy(o) == IsSome(o) /\ Val(o) # <<>>

\* the demo cards initializeStorage seeds; no other payload holds its character
DEMO_TSV == <<0>>

\* saveDataLocally(data, incrementRevision) as it changes the world
saveDataLocally(w, data, incrementRevision) ==
    LET w1 == [w EXCEPT !.ls.cards_data = Some(data)]
    IN IF incrementRevision THEN incrementLocalRevision(w1) ELSE w1

\* initializeStorage's return had a branch returned without startPeriodicSync()
InitReturns_NoTimer(p, w, c, r, path, data) ==
    /\ Leave(w, c, [task EXCEPT ![p] = IdleTask],
             [r EXCEPT !.init = path, !.initData = data])
    /\ UnchangedTimer
    /\ UNCHANGED <<sinceLastSyncAttempt, pendingTimeouts>>

\* initializeStorage returns data: startPeriodicSync(); return data
InitReturns(p, w, c, r, path, data) ==
    /\ Leave(w, c, [task EXCEPT ![p] = IdleTask],
             [r EXCEPT !.init = path, !.initData = data])
    /\ startPeriodicSync
    /\ UNCHANGED <<sinceLastSyncAttempt, pendingTimeouts>>

\* initializeStorage seeds the demo cards:
\* await saveDataLocally(DEMO_TSV, true); startPeriodicSync(); return DEMO_TSV
InitSeeds(p, w, c, r, path) ==
    LET w2 == saveDataLocally(w, DEMO_TSV, TRUE) IN
    /\ Leave(w2, c, [task EXCEPT ![p] = IdleTask],
             [r EXCEPT !.init = path, !.initData = Some(DEMO_TSV)])
    /\ startPeriodicSync
    /\ pendingTimeouts' =
         IF needsCloudWrite(w2) THEN pendingTimeouts + 1 ELSE pendingTimeouts
    /\ UNCHANGED sinceLastSyncAttempt

\* initializeStorage after tryReadFromCloud had it looked at the local data
\* before the data read
InitAfterRead_PrefersLocal(p, w, r, cloudData) ==
    IF Truthy(task[p].localData)
    THEN InitReturns(p, w, cloud, r, "local_fallback", task[p].localData)
    ELSE IF Truthy(cloudData) THEN InitReturns(p, w, cloud, r, "remote", cloudData)
    ELSE InitSeeds(p, w, cloud, r, "seeded_after_read")

\* initializeStorage once tryReadFromCloud has returned cloudData
InitAfterRead(p, w, r, cloudData) ==
    IF Truthy(cloudData) THEN InitReturns(p, w, cloud, r, "remote", cloudData)
    ELSE IF Truthy(task[p].localData)
    THEN InitReturns(p, w, cloud, r, "local_fallback", task[p].localData)
    ELSE InitSeeds(p, w, cloud, r, "seeded_after_read")

\* what ret tells of a return of tryReadFromCloud
ReadRet(p, io, path, data, ok) ==
    [NoReturn EXCEPT !.task = p, !.io = io, !.ok = ok, !.read = path, !.data = data,
                     !.write = IF task[p].caller = "write" THEN "conflict" ELSE "none"]

\* tryReadFromCloud's return had the conflict branch of tryWriteToCloud
\* returned true whatever the read gave
ReadReturns_AlwaysTrue(p, w, io, path, data) ==
    LET r == ReadRet(p, io, path, data, task[p].caller = "write" \/ IsSome(data)) IN
    IF task[p].caller = "init" THEN InitAfterRead(p, w, r, data)
    ELSE Leave(w, cloud, [task EXCEPT ![p] = IdleTask], r) /\ Unchanged3

\* tryReadFromCloud returns data (None for null); when called from the
\* conflict branch of tryWriteToCloud that call returns cloudData !== null,
\* and when called from initializeStorage that function goes on
ReadReturns(p, w, io, path, data) ==
    LET r == ReadRet(p, io, path, data, IsSome(data)) IN
    IF task[p].caller = "init" THEN InitAfterRead(p, w, r, data)
    ELSE Leave(w, cloud, [task EXCEPT ![p] = IdleTask], r) /\ Unchanged3

\* steps 3 and 4 of tryReadFromCloud once every batch is read
ReadCompletes(p, w, meta, batches) ==
    LET fullData == Join(batches)
        w1 == [w EXCEPT !.ls.cards_data = Some(fullData)]
    IN ReadReturns(p, markDataUpdatedFromServer(w1, meta.revision), "ok", "ok",
                   Some(fullData))

\* tryReadFromCloud up to its first await: getItem(cards_meta) is issued
ReadStarts(p, w, io, caller) ==
    Leave(w, cloud,
          [task EXCEPT ![p] = [IdleTask EXCEPT !.pc = "r_getMeta", !.caller = caller,
                                               !.localData = task[p].localData]],
          Resumed(p, io))

\* handleForceCloudRead: the user asks for a read from the cloud
ForceCloudRead(p) ==
    /\ FirstIdle(p)
    /\ ReadStarts(p, World, "none", "ui")
    /\ Unchanged3 /\ KeepHistory

\* tryReadFromCloud resumes with the metadata read settled
ReadMetaSettles(p) ==
    /\ task[p].pc = "r_getMeta"
    /\ \E outcome \in GetOutcomes :
        LET metaStr == cloud.meta
            parsedMeta == Val(metaStr)
            old == IsOldFormat(parsedMeta)
            meta == IF old THEN CloudMetadata(1, parsedMeta.cardsBatches)
                    ELSE parsedMeta
        IN
        IF outcome = "fail" THEN ReadReturns(p, World, "fail", "error", None)
        ELSE IF ~IsSome(metaStr) THEN ReadReturns(p, World, "ok", "no_meta", None)
        ELSE IF ~old /\ ~HasRevision(parsedMeta)
        THEN ReadReturns(p, World, "ok", "invalid_meta", None)
        ELSE IF meta.batches = 0
        THEN ReadCompletes(p, World, meta, <<>>)
        ELSE /\ Leave(World, cloud,
                      [task EXCEPT ![p].pc = "r_getBatch", ![p].meta = Some(meta),
                                   ![p].old = old, ![p].i = 0, ![p].batches = <<>>],
                      Resumed(p, "ok"))
             /\ Unchanged3
    /\ KeepHistory

\* the batch loop had it taken a missing batch for an empty one (batch || '')
ReadBatchSettles_SkipsMissing(p) ==
    /\ task[p].pc = "r_getBatch"
    /\ \E outcome \in GetOutcomes :
        LET batch == IF task[p].old THEN getOldBatch(cloud, task[p].i)
                     ELSE getBatch(cloud, task[p].i)
            meta == Val(task[p].meta)
        IN
        IF outcome = "fail" THEN ReadReturns(p, World, "fail", "error", None)
        ELSE LET batches == Append(task[p].batches,
                                   IF IsSome(batch) THEN Val(batch) ELSE <<>>)
             IN
             IF task[p].i + 1 < meta.batches
             THEN /\ Leave(World, cloud,
                           [task EXCEPT ![p].i = task[p].i + 1,
                                        ![p].batches = batches],
                           Resumed(p, "ok"))
                  /\ Unchanged3
             ELSE ReadCompletes(p, World, meta, batches)
    /\ KeepHistory

\* tryReadFromCloud resumes with the read of batch i settled
ReadBatchSettles(p) ==
    /\ task[p].pc = "r_getBatch"
    /\ \E outcome \in GetOutcomes :
        LET batch == IF task[p].old THEN getOldBatch(cloud, task[p].i)
                     ELSE getBatch(cloud, task[p].i)
            meta == Val(task[p].meta)
        IN
        IF outcome = "fail" THEN ReadReturns(p, World, "fail", "error", None)
        ELSE IF ~IsSome(batch)
        THEN ReadReturns(p, World, "ok", "missing_batch", None)
        ELSE LET batches == Append(task[p].batches, Val(batch)) IN
             IF task[p].i + 1 < meta.batches
             THEN /\ Leave(World, cloud,
                           [task EXCEPT ![p].i = task[p].i + 1,
                                        ![p].batches = batches],
                           Resumed(p, "ok"))
                  /\ Unchanged3
             ELSE ReadCompletes(p, World, meta, batches)
    /\ KeepHistory

-----------------------------------------------------------------------------
(* tryWriteToCloud *)

\* step 9 of tryWriteToCloud, reached when cleanupExtraBatches is over
WriteCompletes(p, c, io) ==
    /\ Leave(markAsSynced(World, task[p].newRevision), c,
             [task EXCEPT ![p] = IdleTask], WriteReturn(p, io, "synced", TRUE))
    /\ KeepHistory

\* the catch block of tryWriteToCloud
WriteFails(p, c, io) ==
    Leave(markSyncFailed(World, ErrorMessage(io)), c,
          [task EXCEPT ![p] = IdleTask], WriteReturn(p, io, "failed", FALSE))

\* who calls tryWriteToCloud: the timeout saveDataLocally set, the periodic
\* timer's callback (under its own condition), or handleForceCloudWrite
Callers == {"timeout", "periodic", "manual"}

\* the condition had the tick looked at isSyncing only
PeriodicCondition_IgnoresNeeds == ~status.isSyncing

\* line 882: what the callback of the periodic timer tests
PeriodicCondition == needsCloudWrite(World) /\ ~status.isSyncing

\* tryWriteToCloud had markAsSyncing been called before the throttle test
TryWriteToCloud_MarksBeforeThrottle(p, caller) ==
    /\ FirstIdle(p)
    /\ caller = "timeout" => pendingTimeouts > 0
    /\ caller = "periodic" => activeTimers > 0 /\ PeriodicCondition
    /\ pendingTimeouts' =
         IF caller = "timeout" THEN pendingTimeouts - 1 ELSE pendingTimeouts
    /\ LET w1 == markAsSyncing(World) IN
       IF sinceLastSyncAttempt < MIN_SYNC_INTERVAL
       THEN /\ Leave(w1, cloud, task,
                     CalledBy(caller, WriteReturn(p, "none", "throttled", FALSE)))
            /\ UNCHANGED sinceLastSyncAttempt
       ELSE /\ sinceLastSyncAttempt' = 0
            /\ IF ~needsCloudWrite(w1)
               THEN Leave(markAsSyncedNoArg(w1), cloud, task,
                          CalledBy(caller, WriteReturn(p, "none", "not_needed", TRUE)))
               ELSE Leave(w1, cloud,
                          [task EXCEPT ![p] = [IdleTask EXCEPT !.pc = "w_getMeta"]],
                          CalledBy(caller, Resumed(p, "none")))
    /\ UnchangedTimer
    /\ KeepHistory

\* tryWriteToCloud from its call to its first await, or to its return when
\* it returns before awaiting
TryWriteToCloud(p, caller) ==
    /\ FirstIdle(p)
    /\ caller = "timeout" => pendingTimeouts > 0
    /\ caller = "periodic" => activeTimers > 0 /\ PeriodicCondition
    /\ pendingTimeouts' =
         IF caller = "timeout" THEN pendingTimeouts - 1 ELSE pendingTimeouts
    /\ IF sinceLastSyncAttempt < MIN_SYNC_INTERVAL
       THEN /\ Leave(World, cloud, task,
                     CalledBy(caller, WriteReturn(p, "none", "throttled", FALSE)))
            /\ UNCHANGED sinceLastSyncAttempt
       ELSE /\ sinceLastSyncAttempt' = 0
            /\ LET w1 == markAsSyncing(World) IN
               IF ~needsCloudWrite(w1)
               THEN Leave(markAsSyncedNoArg(w1), cloud, task,
                          CalledBy(caller, WriteReturn(p, "none", "not_needed", TRUE)))
               ELSE Leave(w1, cloud,
                          [task EXCEPT ![p] = [IdleTask EXCEPT !.pc = "w_getMeta"]],
                          CalledBy(caller, Resumed(p, "none")))
    /\ UnchangedTimer
    /\ KeepHistory

\* steps 2 to 6: the metadata read settles; the conflict check; the split;
\* setItem(cards_meta) is issued
WriteMetaRead(p) ==
    /\ task[p].pc = "w_getMeta"
    /\ \E outcome \in GetOutcomes :
        LET metaStr == IF outcome = "ok" THEN cloud.meta ELSE None
            w1 == IF IsSome(metaStr)
                  THEN setServerRevision(World, MetaRevision(Val(metaStr)))
                  ELSE World
            localData == w1.ls.cards_data
        IN
        IF w1.status.revisionServer > w1.status.revisionLocal
        THEN ReadStarts(p, markSyncFailed(w1, Some("Server has newer data")), outcome,
                        "write")
        ELSE IF ~IsSome(localData) \/ localData = Some(<<>>)
        THEN Leave(markSyncFailed(w1, Some("No local data")), cloud,
                   [task EXCEPT ![p] = IdleTask],
                   WriteReturn(p, outcome, "no_local_data", FALSE))
        ELSE Leave(w1, cloud,
                   [task EXCEPT ![p].pc = "w_setMeta",
                                ![p].batches = Split(Val(localData)),
                                ![p].newRevision = w1.status.revisionLocal],
                   Resumed(p, outcome))
    /\ Unchanged3 /\ KeepHistory

\* WriteMetaSet had the catch block been missed: the batch writes are
\* issued whether or not the metadata write was acknowledged
WriteMetaSet_IgnoresFailure(p) ==
    /\ task[p].pc = "w_setMeta"
    /\ \E outcome \in SetOutcomes :
        LET meta == CloudMetadata(task[p].newRevision, Len(task[p].batches))
            c == IF Applied(outcome) THEN [cloud EXCEPT !.meta = Some(meta)] ELSE cloud
        IN Leave(World, c, [task EXCEPT ![p].pc = "w_setBatch", ![p].i = 0],
                 Resumed(p, outcome))
    /\ Unchanged3 /\ KeepHistory

\* step 6 settles: the metadata write; setItem(cards_batch_0) is issued
WriteMetaSet(p) ==
    /\ task[p].pc = "w_setMeta"
    /\ \E outcome \in SetOutcomes :
        LET meta == CloudMetadata(task[p].newRevision, Len(task[p].batches))
            c == IF Applied(outcome) THEN [cloud EXCEPT !.meta = Some(meta)] ELSE cloud
        IN
        IF outcome = "ok"
        THEN Leave(World, c, [task EXCEPT ![p].pc = "w_setBatch", ![p].i = 0],
                   Resumed(p, outcome))
        ELSE WriteFails(p, c, outcome)
    /\ Unchanged3 /\ KeepHistory

\* cleanupExtraBatches removes batches n .. n + CLEANUP_LIMIT - 1 one at a
\* time.  Removing a key >= NumSlots finds nothing: the model keeps one step
\* for the first removal and for every removal below NumSlots, and lets the
\* inert removals after it settle with that step.
LastModelledRemoval(n) == IF n < NumSlots THEN Min(NumSlots, n + CLEANUP_LIMIT) - 1 ELSE n

\* step 7: the write of batch i settles; the next write, or the first
\* removal of cleanupExtraBatches, is issued
WriteBatchSet(p) ==
    /\ task[p].pc = "w_setBatch"
    /\ \E outcome \in SetOutcomes :
        LET i == task[p].i
            n == Len(task[p].batches)
            c == IF Applied(outcome) THEN setBatch(cloud, i, task[p].batches[i + 1])
                 ELSE cloud
        IN
        /\ IF outcome # "ok" THEN WriteFails(p, c, outcome)
           ELSE IF i + 1 < n
           THEN Leave(World, c, [task EXCEPT ![p].i = i + 1], Resumed(p, outcome))
           ELSE Leave(World, c, [task EXCEPT ![p].pc = "w_remove", ![p].i = n],
                      Resumed(p, outcome))
        \* history: with its last batch stored, the pass has written its
        \* payload in full under newRevision
        /\ fullWrites' =
             IF recordWrites /\ Applied(outcome) /\ i + 1 = n
             THEN fullWrites \cup {<<task[p].newRevision, Join(task[p].batches)>>}
             ELSE fullWrites
        /\ UNCHANGED recordWrites /\ KeepOthers
    /\ Unchanged3

\* step 8: the removal of batch i settles; a failed removal ends the loop;
\* after the loop, step 9 marks the pass synced
WriteRemove(p) ==
    /\ task[p].pc = "w_remove"
    /\ \E outcome \in SetOutcomes :
        LET i == task[p].i
            n == Len(task[p].batches)
            c == IF Applied(outcome) THEN removeBatch(cloud, i) ELSE cloud
        IN
        IF outcome = "ok" /\ i < LastModelledRemoval(n)
        THEN /\ Leave(World, c, [task EXCEPT ![p].i = i + 1], Resumed(p, outcome))
             /\ KeepHistory
        ELSE WriteCompletes(p, c, outcome)
    /\ Unchanged3

-----------------------------------------------------------------------------
(* The callers *)

\* saveDataLocally(data, incrementRevision)
\* saveDataLocally had it set the timeout whatever needsCloudWrite() says
SaveDataLocally_AlwaysSchedules(data, incrementRevision) ==
    LET w1 == [World EXCEPT !.ls.cards_data = Some(data)]
        w2 == IF incrementRevision THEN incrementLocalRevision(w1) ELSE w1
    IN
    /\ incrementRevision => status.revisionLocal < MaxRev
    /\ pendingTimeouts < MaxPending
    /\ pendingTimeouts' = pendingTimeouts + 1
    /\ Leave(w2, cloud, task, NoReturn)
    /\ UNCHANGED sinceLastSyncAttempt /\ UnchangedTimer
    /\ KeepHistory

SaveDataLocally(data, incrementRevision) ==
    LET w1 == [World EXCEPT !.ls.cards_data = Some(data)]
        w2 == IF incrementRevision THEN incrementLocalRevision(w1) ELSE w1
    IN
    /\ incrementRevision => status.revisionLocal < MaxRev
    /\ needsCloudWrite(w2) => pendingTimeouts < MaxPending
    /\ pendingTimeouts' =
         IF needsCloudWrite(w2) THEN pendingTimeouts + 1 ELSE pendingTimeouts
    /\ Leave(w2, cloud, task, NoReturn)
    /\ UNCHANGED sinceLastSyncAttempt /\ UnchangedTimer
    /\ KeepHistory

\* clearLocalStorage()
ClearLocalStorage ==
    /\ Leave(reset([World EXCEPT !.ls.cards_data = None]), cloud, task, NoReturn)
    /\ Unchanged3 /\ KeepHistory

\* handleResetRevisions: setLocalRevision(1); setServerRevision(0)
ResetRevisions ==
    /\ Leave(setServerRevision(setLocalRevision(World, JSNumber(1)), JSNumber(0)),
             cloud, task, NoReturn)
    /\ Unchanged3 /\ KeepHistory

StartPeriodicSync ==
    /\ startPeriodicSync
    /\ Leave(World, cloud, task, NoReturn)
    /\ UNCHANGED <<sinceLastSyncAttempt, pendingTimeouts>> /\ KeepHistory

StopPeriodicSync ==
    /\ stopPeriodicSync
    /\ Leave(World, cloud, task, NoReturn)
    /\ UNCHANGED <<sinceLastSyncAttempt, pendingTimeouts>> /\ KeepHistory

\* the callback of the periodic timer, lines 881-886, when its condition
\* is false: tryWriteToCloud is not called.  (When it is true the callback
\* is the step TryWriteToCloud(p, "periodic").)
PeriodicTickSkips ==
    /\ activeTimers > 0
    /\ ~PeriodicCondition
    /\ Leave(World, cloud, task, [NoReturn EXCEPT !.tick = "skipped"])
    /\ Unchanged3 /\ KeepHistory

\* time passes: Date.now() - lastSyncAttempt grows; the model keeps the
\* difference only up to MIN_SYNC_INTERVAL, beyond which the code cannot
\* tell one value from another
Tick ==
    /\ sinceLastSyncAttempt < MIN_SYNC_INTERVAL
    /\ sinceLastSyncAttempt' = Min(sinceLastSyncAttempt + ClockStep, MIN_SYNC_INTERVAL)
    /\ Leave(World, cloud, task, NoReturn)
    /\ UNCHANGED pendingTimeouts /\ UnchangedTimer /\ KeepHistory

\* the page is loaded again: the module state is built anew (new
\* SyncStatusManager() loads the stored counters), nothing is in flight
Reload ==
    /\ Leave(loadRevisions([status |-> InitialStatus, ls |-> localStorage]),
             cloud, [p \in Tasks |-> IdleTask], NoReturn)
    /\ sinceLastSyncAttempt' = MIN_SYNC_INTERVAL
    /\ periodicSyncInterval' = FALSE
    /\ activeTimers' = 0
    /\ pendingTimeouts' = 0
    /\ KeepHistory

-----------------------------------------------------------------------------
(* initializeStorage and migrateOldDataToNewFormat *)

\* (cloudMeta.revision || 0) as a JavaScript value
RevisionOrZero(cloudMeta) ==
    IF HasRevision(cloudMeta) THEN JSNumber(cloudMeta.revision) ELSE JSNumber(0)

\* how a localStorage.setItem of initializeStorage ends
StorageOutcomes == {"ok", "throws"}

\* the catch block of initializeStorage
InitCatches(p, w, c, r) ==
    IF Truthy(w.ls.cards_data)
    THEN InitReturns(p, w, c, r, "error_local", w.ls.cards_data)
    ELSE \E again \in StorageOutcomes :
           IF again = "ok" THEN InitSeeds(p, w, c, r, "error_seeded")
           ELSE /\ Leave(w, c, [task EXCEPT ![p] = IdleTask],
                         [r EXCEPT !.init = "rejected"])
                /\ Unchanged3

\* initializeStorage's decision had the comparison of the counters been
\* written the other way round
InitDecides_ReadsWhenAhead(p, w, c, r, cloudMeta) ==
    \E storage \in StorageOutcomes :
      LET localData == task[p].localData
          w1 == setLocalRevision(w, JSNumber(task[p].parsedLocalRevision))
      IN
      IF storage = "throws"
      THEN InitCatches(p, [w1 EXCEPT !.ls = w.ls], c, r)
      ELSE IF /\ ~Truthy(localData)
              /\ \/ ~IsSome(cloudMeta)
                 \/ HasRevision(Val(cloudMeta)) /\ Val(cloudMeta).revision = 0
      THEN InitSeeds(p, w1, c, r, "seeded")
      ELSE IF ~Truthy(localData) \/ w1.status.revisionLocal >= w1.status.revisionServer
      THEN /\ Leave(w1, c,
                    [task EXCEPT ![p] = [IdleTask EXCEPT !.pc = "r_getMeta",
                                                         !.caller = "init",
                                                         !.localData = localData]],
                    r)
           /\ Unchanged3
      ELSE InitReturns(p, w1, c, r, "local_ahead", localData)

\* initializeStorage from setLocalRevision(parsedLocalRevision) on: w is the
\* world with the server revision set from cloudMeta (None for null).  The
\* localStorage.setItem inside setLocalRevision may throw, after the
\* tracker's fields are assigned; the catch block takes over then.
InitDecides(p, w, c, r, cloudMeta) ==
    \E storage \in StorageOutcomes :
      LET localData == task[p].localData
          w1 == setLocalRevision(w, JSNumber(task[p].parsedLocalRevision))
      IN
      IF storage = "throws"
      THEN InitCatches(p, [w1 EXCEPT !.ls = w.ls], c, r)
      ELSE IF /\ ~Truthy(localData)
              /\ \/ ~IsSome(cloudMeta)
                 \/ HasRevision(Val(cloudMeta)) /\ Val(cloudMeta).revision = 0
      THEN InitSeeds(p, w1, c, r, "seeded")
      ELSE IF ~Truthy(localData) \/ w1.status.revisionLocal <= w1.status.revisionServer
      THEN /\ Leave(w1, c,
                    [task EXCEPT ![p] = [IdleTask EXCEPT !.pc = "r_getMeta",
                                                         !.caller = "init",
                                                         !.localData = localData]],
                    r)
           /\ Unchanged3
      ELSE InitReturns(p, w1, c, r, "local_ahead", localData)

\* initializeStorage up to its first await: getItem(cards_meta) is issued
InitializeStorage(p) ==
    /\ FirstIdle(p)
    /\ Leave(World, cloud,
             [task EXCEPT ![p] =
                [IdleTask EXCEPT !.pc = "i_getMeta", !.caller = "init",
                                 !.localData = localStorage.cards_data,
                                 !.parsedLocalRevision =
                                    IF Truthy(localStorage.cards_revision)
                                    THEN ParseInt(Val(localStorage.cards_revision))
                                    ELSE 0]],
             Resumed(p, "none"))
    /\ Unchanged3 /\ KeepHistory

\* the metadata read of initializeStorage settles
InitMetaSettles(p) ==
    /\ task[p].pc = "i_getMeta"
    /\ \E outcome \in GetOutcomes :
        LET metaStr == cloud.meta
            parsedMeta == Val(metaStr)
            r == Resumed(p, outcome)
            w0 == setServerRevision(World, JSNumber(0))
        IN
        IF outcome = "fail" \/ ~IsSome(metaStr) THEN InitDecides(p, w0, cloud, r, None)
        ELSE IF IsOldFormat(parsedMeta)
        THEN /\ Leave(World, cloud,
                      [task EXCEPT ![p].pc = "m_getMeta", ![p].meta = metaStr], r)
             /\ Unchanged3
        ELSE IF HasRevision(parsedMeta)
        THEN InitDecides(p, setServerRevision(World, RevisionOrZero(parsedMeta)),
                         cloud, r, metaStr)
        ELSE InitDecides(p, w0, cloud, r, None)
    /\ KeepHistory

\* the metadata read after a migration settles
InitMetaReread(p) ==
    /\ task[p].pc = "i_getMeta2"
    /\ \E outcome \in GetOutcomes :
        LET newMetaStr == cloud.meta
            r == Resumed(p, outcome)
        IN
        IF outcome = "fail" \/ ~IsSome(newMetaStr)
        THEN InitDecides(p, setServerRevision(World, JSNumber(0)), cloud, r, None)
        ELSE InitDecides(p, setServerRevision(World, RevisionOrZero(Val(newMetaStr))),
                         cloud, r, newMetaStr)
    /\ KeepHistory

\* migrateOldDataToNewFormat's return had setServerRevision(1) been called
\* on every return
MigrateReturns_AlwaysSetsRevision(p, w, c, io, migrated) ==
    LET r == [Resumed(p, io) EXCEPT !.migrated = IF migrated THEN "true" ELSE "false"]
    IN
    IF task[p].caller # "init"
    THEN Leave(setServerRevision(w, JSNumber(1)), c, [task EXCEPT ![p] = IdleTask], r)
         /\ Unchanged3
    ELSE IF migrated
    THEN /\ Leave(w, c, [task EXCEPT ![p].pc = "i_getMeta2"], r)
         /\ Unchanged3
    ELSE LET cloudMeta == CloudMetadata(1, Val(task[p].meta).cardsBatches)
         IN InitDecides(p, setServerRevision(w, RevisionOrZero(cloudMeta)), c, r,
                        Some(cloudMeta))

\* migrateOldDataToNewFormat returns migrated, with the world w and the
\* remote store c; called from initializeStorage, that function goes on
MigrateReturns(p, w, c, io, migrated) ==
    LET r == [Resumed(p, io) EXCEPT !.migrated = IF migrated THEN "true" ELSE "false"]
    IN
    IF task[p].caller # "init"
    THEN Leave(w, c, [task EXCEPT ![p] = IdleTask], r) /\ Unchanged3
    ELSE IF migrated
    THEN /\ Leave(w, c, [task EXCEPT ![p].pc = "i_getMeta2"], r)
         /\ Unchanged3
    ELSE LET cloudMeta == CloudMetadata(1, Val(task[p].meta).cardsBatches)
         IN InitDecides(p, setServerRevision(w, RevisionOrZero(cloudMeta)), c, r,
                        Some(cloudMeta))

\* handleMigrateOldData: the user asks for a migration
MigrateOldData(p) ==
    /\ FirstIdle(p)
    /\ Leave(World, cloud,
             [task EXCEPT ![p] = [IdleTask EXCEPT !.pc = "m_getMeta", !.caller = "ui"]],
             Resumed(p, "none"))
    /\ Unchanged3 /\ KeepHistory

\* step 1 of the migration: its metadata read settles
MigrateMetaSettles(p) ==
    /\ task[p].pc = "m_getMeta"
    /\ \E outcome \in GetOutcomes :
        LET metaStr == cloud.meta
            parsedMeta == Val(metaStr)
        IN
        IF outcome = "fail" \/ ~IsSome(metaStr)
        THEN MigrateReturns(p, World, cloud, outcome, FALSE)
        ELSE IF \/ ~("cardsBatches" \in DOMAIN parsedMeta /\ parsedMeta.cardsBatches # 0)
                \/ HasRevision(parsedMeta)
        THEN MigrateReturns(p, World, cloud, outcome, FALSE)
        ELSE /\ Leave(World, cloud,
                      [task EXCEPT ![p].pc = "m_getBatch", ![p].meta = metaStr,
                                   ![p].i = 0, ![p].batches = <<>>],
                      Resumed(p, outcome))
             /\ Unchanged3
    /\ KeepHistory

\* steps 2 to 5: the read of old batch i settles; after the last one the
\* data is joined and split anew and setItem(cards_meta) is issued
MigrateBatchSettles(p) ==
    /\ task[p].pc = "m_getBatch"
    /\ \E outcome \in GetOutcomes :
        LET batch == getOldBatch(cloud, task[p].i)
            batches == Append(task[p].batches, Val(batch))
        IN
        IF outcome = "fail" \/ ~IsSome(batch)
        THEN MigrateReturns(p, World, cloud, outcome, FALSE)
        ELSE /\ Leave(World, cloud,
                      IF task[p].i + 1 < Val(task[p].meta).cardsBatches
                      THEN [task EXCEPT ![p].i = task[p].i + 1, ![p].batches = batches]
                      ELSE [task EXCEPT ![p].pc = "m_setMeta", ![p].i = 0,
                                        ![p].batches = Split(Join(batches))],
                      Resumed(p, outcome))
             /\ Unchanged3
    /\ KeepHistory

\* step 5 settles: the new metadata; setItem(cards_batch_0) is issued
MigrateMetaSet(p) ==
    /\ task[p].pc = "m_setMeta"
    /\ \E outcome \in SetOutcomes :
        LET newMeta == CloudMetadata(1, Len(task[p].batches))
            c1 == IF Applied(outcome) THEN [cloud EXCEPT !.meta = Some(newMeta)]
                  ELSE cloud
        IN
        IF outcome # "ok" THEN MigrateReturns(p, World, c1, outcome, FALSE)
        ELSE /\ Leave(World, c1,
                      [task EXCEPT ![p].pc = IF Len(task[p].batches) > 0
                                             THEN "m_setBatch" ELSE "m_remove",
                                   ![p].i = 0],
                      Resumed(p, outcome))
             /\ Unchanged3
    /\ KeepHistory

\* step 6: the write of new batch i settles; after the last one the removal
\* of old batch 0 is issued
MigrateBatchSet(p) ==
    /\ task[p].pc = "m_setBatch"
    /\ \E outcome \in SetOutcomes :
        LET i == task[p].i
            c1 == IF Applied(outcome) THEN setBatch(cloud, i, task[p].batches[i + 1])
                  ELSE cloud
        IN
        IF outcome # "ok" THEN MigrateReturns(p, World, c1, outcome, FALSE)
        ELSE /\ Leave(World, c1,
                      IF i + 1 < Len(task[p].batches)
                      THEN [task EXCEPT ![p].i = i + 1]
                      ELSE [task EXCEPT ![p].pc = "m_remove", ![p].i = 0],
                      Resumed(p, outcome))
             /\ Unchanged3
    /\ KeepHistory

\* steps 7 and 8: the removal of old batch i settles, its error swallowed;
\* after the last one setServerRevision(1) and return true
MigrateRemove(p) ==
    /\ task[p].pc = "m_remove"
    /\ \E outcome \in SetOutcomes :
        LET i == task[p].i
            c1 == IF Applied(outcome) THEN removeOldBatch(cloud, i) ELSE cloud
        IN
        IF i + 1 < Val(task[p].meta).cardsBatches
        THEN /\ Leave(World, c1, [task EXCEPT ![p].i = i + 1], Resumed(p, outcome))
             /\ Unchanged3
        ELSE MigrateReturns(p, setServerRevision(World, JSNumber(1)), c1, outcome, TRUE)
    /\ KeepHistory

-----------------------------------------------------------------------------
(* Specifications *)

EmptyLocalStorage ==
    [cards_data |-> None, cards_revision |-> None, cards_server_revision |-> None]

\* the parts modelled on their own, at rest
OthersAtRest ==
    /\ splitter = NoSplit
    /\ call = NoCall
    /\ clearing = NoClear
    /\ subs = NoSubs
    /\ chunked = NoChunked

\* a first load: nothing stored, nothing in the cloud; lastSyncAttempt = 0
\* lies further back than any interval
EngineAtRest(record) ==
    /\ localStorage = EmptyLocalStorage
    /\ status = loadRevisions([status |-> InitialStatus, ls |-> EmptyLocalStorage]).status
    /\ cloud = EmptyCloud
    /\ task = [p \in Tasks |-> IdleTask]
    /\ sinceLastSyncAttempt = MIN_SYNC_INTERVAL
    /\ periodicSyncInterval = FALSE
    /\ activeTimers = 0
    /\ pendingTimeouts = 0
    /\ ret = NoReturn
    /\ fullWrites = {}
    /\ recordWrites = record

InitWith(record) == EngineAtRest(record) /\ OthersAtRest

Init == InitWith(FALSE)

\* fewer than limit passes are in flight
CanStart(limit) == Cardinality({p \in Tasks : task[p].pc # "idle"}) < limit

\* every operation; a pass starts when fewer than MaxInFlight are in flight
Next ==
    \/ \E data \in Payloads, incrementRevision \in BOOLEAN :
         SaveDataLocally(data, incrementRevision)
    \/ \E p \in Tasks, caller \in Callers :
         CanStart(MaxInFlight) /\ TryWriteToCloud(p, caller)
    \/ \E p \in Tasks : WriteMetaRead(p)
    \/ \E p \in Tasks : WriteMetaSet(p)
    \/ \E p \in Tasks : WriteBatchSet(p)
    \/ \E p \in Tasks : WriteRemove(p)
    \/ \E p \in Tasks : CanStart(MaxInFlight) /\ ForceCloudRead(p)
    \/ \E p \in Tasks : ReadMetaSettles(p)
    \/ \E p \in Tasks : ReadBatchSettles(p)
    \/ ClearLocalStorage
    \/ ResetRevisions
    \/ StartPeriodicSync
    \/ StopPeriodicSync
    \/ PeriodicTickSkips
    \/ Tick
    \/ Reload

Spec == Init /\ [][Next]_vars

\* saves, pushes and forced reads, with up to NumTasks passes in flight
NextOverlap ==
    \/ \E data \in Payloads : SaveDataLocally(data, TRUE)
    \/ \E p \in Tasks, caller \in {"timeout", "manual"} : TryWriteToCloud(p, caller)
    \/ \E p \in Tasks : WriteMetaRead(p)
    \/ \E p \in Tasks : WriteMetaSet(p)
    \/ \E p \in Tasks : WriteBatchSet(p)
    \/ \E p \in Tasks : WriteRemove(p)
    \/ \E p \in Tasks : ForceCloudRead(p)
    \/ \E p \in Tasks : ReadMetaSettles(p)
    \/ \E p \in Tasks : ReadBatchSettles(p)
    \/ Tick

SpecOverlap == Init /\ [][NextOverlap]_vars

\* saves, pushes and forced reads, one pass at a time, with the payloads
\* written in full recorded in fullWrites
NextHistory ==
    \/ \E data \in Payloads : SaveDataLocally(data, TRUE)
    \/ \E p \in Tasks, caller \in {"timeout", "manual"} :
         CanStart(MaxInFlight) /\ TryWriteToCloud(p, caller)
    \/ \E p \in Tasks : WriteMetaRead(p)
    \/ \E p \in Tasks : WriteMetaSet(p)
    \/ \E p \in Tasks : WriteBatchSet(p)
    \/ \E p \in Tasks : WriteRemove(p)
    \/ \E p \in Tasks : CanStart(MaxInFlight) /\ ForceCloudRead(p)
    \/ \E p \in Tasks : ReadMetaSettles(p)
    \/ \E p \in Tasks : ReadBatchSettles(p)
    \/ Tick

SpecHistory == InitWith(TRUE) /\ [][NextHistory]_vars

\* Towards eventual synchronisation.  While the periodic timer is not
\* running the payload is saved and the pushes those saves schedule run,
\* their remote calls settling in any way.  Once startPeriodicSync has been
\* called nothing is saved any more and every remote call succeeds.
SettleStep(p) ==
    \/ WriteMetaRead(p)
    \/ WriteMetaSet(p)
    \/ WriteBatchSet(p)
    \/ WriteRemove(p)
    \/ ReadMetaSettles(p)
    \/ ReadBatchSettles(p)

\* a remote call of a pass settles with success
SettlesOk == \E p \in Tasks : SettleStep(p) /\ ret'.io = "ok"

\* the callback of the periodic timer calls tryWriteToCloud
PeriodicPush == \E p \in Tasks : CanStart(MaxInFlight) /\ TryWriteToCloud(p, "periodic")

NextLive ==
    \/ activeTimers = 0 /\ \E data \in Payloads : SaveDataLocally(data, TRUE)
    \/ activeTimers = 0 /\ \E p \in Tasks : SettleStep(p)
    \/ activeTimers = 0 /\ StartPeriodicSync
    \/ \E p \in Tasks : CanStart(MaxInFlight) /\ TryWriteToCloud(p, "timeout")
    \/ PeriodicPush
    \/ PeriodicTickSkips
    \/ activeTimers > 0 /\ SettlesOk
    \/ Tick

\* the clock advances, the timer keeps firing (setInterval, line 881) and
\* every remote call settles (each races a timeout, lines 276-309)
SpecLive ==
    /\ Init
    /\ [][NextLive]_vars
    /\ WF_vars(Tick)
    /\ WF_vars(PeriodicPush)
    /\ WF_vars(activeTimers > 0 /\ SettlesOk)

-----------------------------------------------------------------------------
(* Start-up: initializeStorage and the migration, from what earlier        *)
(* sessions (of this version or of the one with the old format) may have   *)
(* left in localStorage and in the remote store                            *)

\* payloads found stored at start-up
StoredPayloads == {Repeat(c, len) : c \in Symbols, len \in 0..1}

\* localStorage at start-up: nothing, or a payload with both counters
StoredStates ==
    {EmptyLocalStorage} \cup
    {[cards_data |-> Some(d), cards_revision |-> Some(NumToString(l)),
      cards_server_revision |-> Some(NumToString(sv))] :
        d \in StoredPayloads, l \in 0..MaxRev, sv \in 0..MaxRev}

\* the remote store after a push of data under revision r; without its last
\* batch when the push was cut short
NewLayout(r, data, complete) ==
    LET b == Split(data)
        n == Len(b)
    IN [EmptyCloud EXCEPT
          !.meta = Some(CloudMetadata(r, n)),
          !.batch = [i \in Slots |->
                       IF i < n /\ (complete \/ i < n - 1) THEN Some(b[i + 1])
                       ELSE None]]

\* the remote store as the old format left it, with or without its last batch
OldLayout(chunks, complete) ==
    LET n == Len(chunks)
    IN [EmptyCloud EXCEPT
          !.meta = Some(OldMetadata(n)),
          !.oldBatch = [i \in Slots |->
                          IF i < n /\ (complete \/ i < n - 1) THEN Some(chunks[i + 1])
                          ELSE None]]

\* the old format cut the data at lengths of its own
OldChunkings ==
    {ch \in UNION {[1..m -> Payloads \ {<<>>}] : m \in 1..NumSlots} :
       Len(Join(ch)) <= MaxLen}

RemoteStates ==
    {EmptyCloud}
    \cup {NewLayout(r, d, k) : r \in 1..MaxRev, d \in Payloads \ {<<>>}, k \in BOOLEAN}
    \cup {OldLayout(ch, k) : ch \in OldChunkings, k \in BOOLEAN}

InitStartup ==
    /\ localStorage \in StoredStates
    /\ status = loadRevisions([status |-> InitialStatus, ls |-> localStorage]).status
    /\ cloud \in RemoteStates
    /\ task = [p \in Tasks |-> IdleTask]
    /\ sinceLastSyncAttempt = MIN_SYNC_INTERVAL
    /\ periodicSyncInterval = FALSE
    /\ activeTimers = 0
    /\ pendingTimeouts = 0
    /\ ret = NoReturn
    /\ fullWrites = {}
    /\ recordWrites = FALSE
    /\ OthersAtRest

NextStartup ==
    \/ \E p \in Tasks : CanStart(MaxInFlight) /\ InitializeStorage(p)
    \/ \E p \in Tasks : InitMetaSettles(p)
    \/ \E p \in Tasks : InitMetaReread(p)
    \/ \E p \in Tasks : CanStart(MaxInFlight) /\ MigrateOldData(p)
    \/ \E p \in Tasks : MigrateMetaSettles(p)
    \/ \E p \in Tasks : MigrateBatchSettles(p)
    \/ \E p \in Tasks : MigrateMetaSet(p)
    \/ \E p \in Tasks : MigrateBatchSet(p)
    \/ \E p \in Tasks : MigrateRemove(p)
    \/ \E p \in Tasks : ReadMetaSettles(p)
    \/ \E p \in Tasks : ReadBatchSettles(p)
    \/ Reload

SpecStartup == InitStartup /\ [][NextStartup]_vars

\* start-up followed by the background pushes: the timeout that the
\* seeding saveDataLocally sets, and the periodic timer that
\* initializeStorage starts
NextSeed ==
    \/ \E p \in Tasks : CanStart(MaxInFlight) /\ InitializeStorage(p)
    \/ \E p \in Tasks : InitMetaSettles(p)
    \/ \E p \in Tasks : InitMetaReread(p)
    \/ \E p \in Tasks : MigrateMetaSettles(p)
    \/ \E p \in Tasks : MigrateBatchSettles(p)
    \/ \E p \in Tasks : MigrateMetaSet(p)
    \/ \E p \in Tasks : MigrateBatchSet(p)
    \/ \E p \in Tasks : MigrateRemove(p)
    \/ \E p \in Tasks, caller \in {"timeout", "periodic"} :
         CanStart(MaxInFlight) /\ TryWriteToCloud(p, caller)
    \/ \E p \in Tasks : SettleStep(p)
    \/ PeriodicTickSkips
    \/ Tick

SpecSeed == InitStartup /\ [][NextSeed]_vars

-----------------------------------------------------------------------------
(* Splitting and joining on their own: any payload, any chunk size >= 1 *)

\* payloads of the split loop: up to SplitMaxLen characters out of
\* SplitSymbols; chunk sizes 1 .. SplitMaxSize
SplitMaxLen == 5
SplitSymbols == 2
SplitMaxSize == 5

RECURSIVE StringsOfLength(_)
StringsOfLength(len) ==
    IF len = 0 THEN {<<>>}
    ELSE {<<c>> \o s : c \in 1..SplitSymbols, s \in StringsOfLength(len - 1)}

SplitPayloads == UNION {StringsOfLength(len) : len \in 0..SplitMaxLen}

InitSplit ==
    /\ EngineAtRest(FALSE)
    /\ \E size \in 1..SplitMaxSize, data \in SplitPayloads :
         splitter = [NoSplit EXCEPT !.size = size, !.localData = data]
    /\ call = NoCall
    /\ clearing = NoClear
    /\ subs = NoSubs
    /\ chunked = NoChunked

EngineUnchanged ==
    UNCHANGED <<status, localStorage, cloud, task, sinceLastSyncAttempt,
                periodicSyncInterval, activeTimers, pendingTimeouts, ret,
                fullWrites, recordWrites>>

\* lines 803-807: the batches are cut from the data
SplitsData ==
    /\ splitter.batches = None
    /\ splitter' = [splitter EXCEPT
                      !.batches = Some(SliceLoop(splitter.localData, 0, splitter.size))]
    /\ EngineUnchanged /\ UNCHANGED <<call, clearing, subs, chunked>>

\* line 730: the batches, read back in index order, are joined
JoinsBatches ==
    /\ IsSome(splitter.batches)
    /\ splitter.fullData = None
    /\ splitter' = [splitter EXCEPT !.fullData = Some(Join(Val(splitter.batches)))]
    /\ EngineUnchanged /\ UNCHANGED <<call, clearing, subs, chunked>>

NextSplit == SplitsData \/ JoinsBatches

SpecSplit == InitSplit /\ [][NextSplit]_vars

-----------------------------------------------------------------------------
(* SyncStatusManager.subscribe and notifyListeners *)

\* notifyListeners had it called the callbacks without try / catch: the
\* forEach ends at the first callback that throws
notifyListeners_NoCatch(listeners, throwers) ==
    {listeners[k] : k \in {j \in 1..Len(listeners) :
                             \A m \in 1..(j - 1) : listeners[m] \notin throwers}}

\* notifyListeners: the callbacks invoked, those of throwers throwing
notifyListeners(listeners, throwers) ==
    {listeners[k] : k \in 1..Len(listeners)}

OnlySubs ==
    /\ UNCHANGED <<cloud, task, ret, fullWrites, recordWrites, splitter, call, clearing,
                   chunked>>
    /\ Unchanged3

\* subscribe(callback): listeners.add(callback); callback(getStatus());
\* return the unsubscribe function.  When the callback throws, subscribe
\* throws and returns nothing.
Subscribe(callback, throws) ==
    /\ subs' = [subs EXCEPT
                  !.listeners = IF callback \in notifyListeners(subs.listeners, {})
                                THEN subs.listeners
                                ELSE Append(subs.listeners, callback),
                  !.subscribed = subs.subscribed \cup {callback},
                  !.handles = IF throws THEN subs.handles
                              ELSE subs.handles \cup {callback},
                  !.invoked = [c \in Callbacks |-> IF c = callback THEN 1 ELSE 0],
                  !.passed = Some(status),
                  !.threw = IF throws THEN {callback} ELSE {},
                  !.call = "subscribe", !.arg = callback]
    /\ UNCHANGED <<status, localStorage>>
    /\ OnlySubs

\* the function subscribe returned: listeners.delete(callback)
Unsubscribe(callback) ==
    /\ callback \in subs.handles
    /\ subs' = [subs EXCEPT
                  !.listeners = SelectSeq(subs.listeners, LAMBDA c : c # callback),
                  !.subscribed = subs.subscribed \ {callback},
                  !.invoked = [c \in Callbacks |-> 0],
                  !.passed = None, !.threw = {},
                  !.call = "unsubscribe", !.arg = callback]
    /\ UNCHANGED <<status, localStorage>>
    /\ OnlySubs

\* a method of the tracker that ends in the world w and calls
\* notifyListeners times times on its way
NotifyingCall(name, w, times) ==
    /\ status' = w.status
    /\ localStorage' = w.ls
    /\ \E throwers \in SUBSET Callbacks :
         LET called == notifyListeners(subs.listeners, throwers) IN
         subs' = [subs EXCEPT
                    !.invoked = [c \in Callbacks |-> IF c \in called THEN times ELSE 0],
                    !.passed = Some(w.status),
                    !.threw = throwers \cap called,
                    !.call = name, !.arg = 0]
    /\ OnlySubs

\* the values the callers pass as revisions here
ListenerRevisions == {JSNumber(n) : n \in 0..1} \cup {JSUndefined}

NextListeners ==
    \/ \E callback \in Callbacks, throws \in BOOLEAN : Subscribe(callback, throws)
    \/ \E callback \in Callbacks : Unsubscribe(callback)
    \/ \E revision \in ListenerRevisions :
         NotifyingCall("setLocalRevision", setLocalRevision(World, revision), 1)
    \/ \E revision \in ListenerRevisions :
         NotifyingCall("setServerRevision", setServerRevision(World, revision), 1)
    \/ /\ status.revisionLocal < MaxRev
       /\ NotifyingCall("incrementLocalRevision", incrementLocalRevision(World), 1)
    \/ NotifyingCall("markAsSyncing", markAsSyncing(World), 1)
    \/ NotifyingCall("markAsSynced", markAsSyncedNoArg(World), 1)
    \/ \E n \in 0..1 : NotifyingCall("markAsSynced", markAsSynced(World, n), 2)
    \/ NotifyingCall("markSyncFailed", markSyncFailed(World, ErrorMessage("error")), 1)
    \/ \E n \in 0..1 :
         NotifyingCall("markDataUpdatedFromServer", markDataUpdatedFromServer(World, n), 1)
    \/ NotifyingCall("reset", reset(World), 1)

SpecListeners == Init /\ [][NextListeners]_vars

-----------------------------------------------------------------------------
(* TelegramCloudStorage: one call racing its timeout *)

\* a promise settles once: resolve and reject on a settled promise do
\* nothing.  Settle_LastWins: had a later settlement replaced the earlier
Settle_LastWins(promise, to) == to

Settle(promise, to) == IF promise = "pending" THEN to ELSE promise

TimedOut == Some("Operation timed out")
BackendError == Some("backend error")

\* the values the calls store in cards_batch_i
CallValues == {Repeat(c, len) : c \in Symbols, len \in 1..MAX_CHUNK_SIZE}

OnlyCall ==
    UNCHANGED <<status, localStorage, task, sinceLastSyncAttempt,
                periodicSyncInterval, activeTimers, pendingTimeouts,
                fullWrites, recordWrites, splitter, clearing, subs, chunked>>

\* setItem / getItem / removeItem up to its await: the backend is handed
\* the request and the timer of 10 s is set.  Without CloudStorage the
\* operation promise rejects at once (lines 286-289).
IssueCall(op, key, value, available) ==
    /\ call.awaited
    /\ call.backend \in {"none", "answered"}
    /\ call' = [NoCall EXCEPT
                  !.op = op, !.key = key,
                  !.value = IF op = "set" THEN value ELSE <<>>,
                  !.operation = IF available THEN "pending" ELSE "rejected",
                  !.race = IF available THEN "pending" ELSE "rejected",
                  !.error = IF available THEN None
                            ELSE Some("Telegram CloudStorage not available"),
                  !.backend = IF available THEN "received" ELSE "answered",
                  !.awaited = FALSE]
    /\ ret' = NoReturn
    /\ UNCHANGED cloud
    /\ OnlyCall

\* the backend carries the request out
BackendApplies ==
    /\ call.backend = "received"
    /\ call' = [call EXCEPT !.backend = "applied"]
    /\ cloud' = CASE call.op = "set" -> setBatch(cloud, call.key, call.value)
                  [] call.op = "remove" -> removeBatch(cloud, call.key)
                  [] OTHER -> cloud
    /\ ret' = NoReturn
    /\ OnlyCall

\* the backend invokes the callback: without an error when it has carried
\* the request out (for getItem with the value read, resolve(result ||
\* null)), with an error when it has not
CallbackArrives ==
    /\ call.backend \in {"received", "applied"}
    /\ LET ok == call.backend = "applied"
           to == IF ok THEN "resolved" ELSE "rejected"
           first == call.race = "pending"
       IN call' = [call EXCEPT
                     !.backend = "answered",
                     !.operation = Settle(call.operation, to),
                     !.race = Settle(call.race, to),
                     !.error = IF first /\ ~ok THEN BackendError ELSE call.error,
                     !.result = IF first /\ ok /\ call.op = "get"
                                THEN getBatch(cloud, call.key) ELSE call.result]
    /\ ret' = NoReturn
    /\ UNCHANGED cloud
    /\ OnlyCall

\* the timer set by createTimeoutPromise fires
TimeoutExpires ==
    /\ call.op # "none"
    /\ call.timeout = "pending"
    /\ call' = [call EXCEPT
                  !.timeout = "rejected",
                  !.race = Settle(call.race, "rejected"),
                  !.error = IF call.race = "pending" THEN TimedOut ELSE call.error]
    /\ ret' = NoReturn
    /\ UNCHANGED cloud
    /\ OnlyCall

\* how the engine's steps name the way a call settled (SetOutcomes)
CallOutcome(c) ==
    IF c.race = "resolved" THEN "ok"
    ELSE IF c.backend \in {"applied", "answered"} /\ c.operation # "rejected"
    THEN "timeout_applied"
    ELSE "error"

\* await Promise.race([...]) returns, or throws the reason of the rejection
AwaitReturns ==
    /\ call.race # "pending"
    /\ ~call.awaited
    /\ call' = [call EXCEPT !.awaited = TRUE]
    /\ ret' = [NoReturn EXCEPT !.io = CallOutcome(call),
                               !.ok = call.race = "resolved",
                               !.data = call.result]
    /\ UNCHANGED cloud
    /\ OnlyCall

InitCall ==
    /\ EngineAtRest(FALSE)
    /\ splitter = NoSplit
    /\ call = NoCall
    /\ clearing = NoClear
    /\ subs = NoSubs
    /\ chunked = NoChunked

NextCall ==
    \/ \E op \in {"set", "get", "remove"}, key \in Slots, value \in CallValues,
          available \in BOOLEAN :
         IssueCall(op, key, value, available)
    \/ BackendApplies
    \/ CallbackArrives
    \/ TimeoutExpires
    \/ AwaitReturns

SpecCall == InitCall /\ [][NextCall]_vars

-----------------------------------------------------------------------------
(* TelegramCloudStorage.clear *)

MetaKey == <<"cards_meta", 0>>
BatchKey(i) == <<"cards_batch_", i>>
OldBatchKey(i) == <<"cards_cardsBatch", i>>

\* the keys the backend holds
Keys(c) ==
    {k \in {MetaKey} : IsSome(c.meta)}
    \cup {BatchKey(i) : i \in {j \in Slots : IsSome(c.batch[j])}}
    \cup {OldBatchKey(i) : i \in {j \in Slots : IsSome(c.oldBatch[j])}}

RemoveKey(c, k) ==
    IF k = MetaKey THEN [c EXCEPT !.meta = None]
    ELSE IF k[1] = "cards_batch_" THEN removeBatch(c, k[2])
    ELSE removeOldBatch(c, k[2])

OnlyClear ==
    UNCHANGED <<status, localStorage, task, sinceLastSyncAttempt,
                periodicSyncInterval, activeTimers, pendingTimeouts, ret,
                fullWrites, recordWrites, splitter, call, subs, chunked>>

\* clear() up to the call of tg.getKeys
ClearStarts ==
    /\ clearing.state \in {"none", "done"}
    /\ clearing' = [NoClear EXCEPT !.state = "keys"]
    /\ UNCHANGED cloud
    /\ OnlyClear

\* the callback of getKeys: an error rejects; no key resolves; else
\* removeItem is called for every key and Promise.all awaits them
ClearKeysArrive ==
    /\ clearing.state = "keys"
    /\ \E outcome \in GetOutcomes :
         clearing' =
           IF outcome # "ok"
           THEN [clearing EXCEPT !.state = "done", !.promise = "rejected"]
           ELSE IF Keys(cloud) = {}
           THEN [clearing EXCEPT !.state = "done", !.promise = "resolved"]
           ELSE [clearing EXCEPT !.state = "removing", !.enumerated = Keys(cloud),
                                 !.removing = Keys(cloud)]
    /\ UNCHANGED cloud
    /\ OnlyClear

\* one removeItem settles.  Promise.all rejects with the first rejection
\* and resolves when every removal has resolved.
ClearRemovalSettles ==
    /\ clearing.state = "removing"
    /\ \E k \in clearing.removing, outcome \in SetOutcomes :
         LET left == clearing.removing \ {k}
             p1 == IF outcome # "ok" THEN Settle(clearing.promise, "rejected")
                   ELSE clearing.promise
             p2 == IF left = {} THEN Settle(p1, "resolved") ELSE p1
         IN /\ cloud' = IF Applied(outcome) THEN RemoveKey(cloud, k) ELSE cloud
            /\ clearing' = [clearing EXCEPT
                              !.removing = left, !.promise = p2,
                              !.state = IF left = {} THEN "done" ELSE "removing"]
    /\ OnlyClear

InitClear ==
    /\ localStorage = EmptyLocalStorage
    /\ status = loadRevisions([status |-> InitialStatus, ls |-> localStorage]).status
    /\ cloud \in RemoteStates
    /\ task = [p \in Tasks |-> IdleTask]
    /\ sinceLastSyncAttempt = MIN_SYNC_INTERVAL
    /\ periodicSyncInterval = FALSE
    /\ activeTimers = 0
    /\ pendingTimeouts = 0
    /\ ret = NoReturn
    /\ fullWrites = {}
    /\ recordWrites = FALSE
    /\ OthersAtRest

NextClear == ClearStarts \/ ClearKeysArrive \/ ClearRemovalSettles

SpecClear == InitClear /\ [][NextClear]_vars

-----------------------------------------------------------------------------
(* The optimistic chunked store: setChunkedItem, syncToCloudBackground and *)
(* getChunkedItem of src/src/lib/storage.ts, with the SyncStatusManager of *)
(* src/unnamed/part_001                                                    *)

\* part_001: markAsModified, markAsSyncing, markAsSynced, markSyncFailed
chunkedMarkAsModified(c) == [c EXCEPT !.hasUnsavedChanges = TRUE]
chunkedMarkAsSyncing(c) == [c EXCEPT !.isSyncing = TRUE]
chunkedMarkAsSynced(c) == [c EXCEPT !.hasUnsavedChanges = FALSE, !.isSyncing = FALSE]
chunkedMarkSyncFailed(c) == [c EXCEPT !.isSyncing = FALSE]

OnlyChunked ==
    UNCHANGED <<status, localStorage, cloud, task, sinceLastSyncAttempt,
                periodicSyncInterval, activeTimers, pendingTimeouts, ret,
                fullWrites, recordWrites, splitter, call, clearing, subs>>

\* setChunkedItem, lines 307-335: the value goes to localStorage, the
\* status is marked modified, the background sync is scheduled with
\* setTimeout(..., 0) and the call returns
SetChunkedItem(value) ==
    /\ chunked.sets < MaxSets
    /\ chunked' = [chunkedMarkAsModified(chunked) EXCEPT
                     !.local = Some(value),
                     !.timers = Append(@, value),
                     !.sets = @ + 1,
                     !.lastSet = Some(value),
                     !.get.racing = (chunked.get.pc # "idle")]
    /\ OnlyChunked

\* a background sync ends: through markAsSynced or, from the catch of
\* line 436, through markSyncFailed
SyncEnds(c, s, synced) ==
    [(IF synced THEN chunkedMarkAsSynced(c) ELSE chunkedMarkSyncFailed(c))
       EXCEPT !.sync[s] = IdleSync]

\* syncToCloudBackground up to its first await, lines 337-371: a value of
\* one chunk is written under the key itself, for a longer one the regular
\* item is removed first
SyncStarts ==
    /\ chunked.timers # <<>>
    /\ LET value == Head(chunked.timers)
           s == CHOOSE x \in SyncIds :
                  /\ chunked.sync[x].pc = "idle"
                  /\ \A y \in SyncIds : chunked.sync[y].pc = "idle" => x <= y
       IN chunked' = [chunkedMarkAsSyncing(chunked) EXCEPT
                        !.timers = Tail(@),
                        !.sync[s] = [IdleSync EXCEPT
                                       !.value = value,
                                       !.pc = IF Len(value) <= MAX_CHUNK_SIZE
                                              THEN "s_setRegular"
                                              ELSE "s_removeRegular"]]
    /\ OnlyChunked

\* storage.setItem(key, value) settles, lines 347-349; cleanupChunks starts
\* by reading the metadata (line 496)
SyncRegularSet(s) ==
    /\ chunked.sync[s].pc = "s_setRegular"
    /\ \E outcome \in SetOutcomes :
         LET c1 == IF Applied(outcome)
                   THEN [chunked EXCEPT !.store.regular = Some(chunked.sync[s].value)]
                   ELSE chunked
         IN chunked' = IF outcome = "ok"
                       THEN [c1 EXCEPT !.sync[s].pc = "s_cleanGetMeta"]
                       ELSE SyncEnds(c1, s, FALSE)
    /\ OnlyChunked

\* cleanupChunks, lines 496-521: the metadata read settles; an error is
\* ignored (line 525) and the sync is marked synced (line 356)
SyncCleanMetaRead(s) ==
    /\ chunked.sync[s].pc = "s_cleanGetMeta"
    /\ \E outcome \in GetOutcomes :
         chunked' = IF outcome = "ok" /\ IsSome(chunked.store.meta)
                    THEN [chunked EXCEPT !.sync[s].pc = "s_cleanRemoveMeta",
                                         !.sync[s].n = Val(chunked.store.meta)]
                    ELSE SyncEnds(chunked, s, TRUE)
    /\ OnlyChunked

\* cleanupChunks, line 500: the removal of the metadata settles
SyncCleanMetaRemoved(s) ==
    /\ chunked.sync[s].pc = "s_cleanRemoveMeta"
    /\ \E outcome \in SetOutcomes :
         LET c1 == IF Applied(outcome) THEN [chunked EXCEPT !.store.meta = None]
                   ELSE chunked
         IN chunked' = IF outcome = "ok" /\ chunked.sync[s].n > 0
                       THEN [c1 EXCEPT !.sync[s].pc = "s_cleanRemoveChunk",
                                       !.sync[s].i = 0]
                       ELSE SyncEnds(c1, s, TRUE)
    /\ OnlyChunked

\* cleanupChunks, lines 514-517: the removal of chunk i settles
SyncCleanChunkRemoved(s) ==
    /\ chunked.sync[s].pc = "s_cleanRemoveChunk"
    /\ \E outcome \in SetOutcomes :
         LET i == chunked.sync[s].i
             c1 == IF Applied(outcome) /\ i \in ChunkSlots
                   THEN [chunked EXCEPT !.store.batch[i] = None]
                   ELSE chunked
         IN chunked' = IF outcome = "ok" /\ i + 1 < chunked.sync[s].n
                       THEN [c1 EXCEPT !.sync[s].i = i + 1]
                       ELSE SyncEnds(c1, s, TRUE)
    /\ OnlyChunked

\* lines 363-388: the removal of the regular item settles, its error is
\* ignored; the value is split and the metadata write is issued
SyncRegularRemoved(s) ==
    /\ chunked.sync[s].pc = "s_removeRegular"
    /\ \E outcome \in SetOutcomes :
         LET c1 == IF Applied(outcome) THEN [chunked EXCEPT !.store.regular = None]
                   ELSE chunked
             chunks == Split(chunked.sync[s].value)
         IN chunked' = [c1 EXCEPT !.sync[s].pc = "s_setMeta",
                                  !.sync[s].chunks = chunks,
                                  !.sync[s].n = Len(chunks)]
    /\ OnlyChunked

\* line 388: the metadata write settles
SyncMetaSet(s) ==
    /\ chunked.sync[s].pc = "s_setMeta"
    /\ \E outcome \in SetOutcomes :
         LET c1 == IF Applied(outcome)
                   THEN [chunked EXCEPT !.store.meta = Some(chunked.sync[s].n)]
                   ELSE chunked
         IN chunked' = IF outcome = "ok"
                       THEN [c1 EXCEPT !.sync[s].pc = "s_setChunk", !.sync[s].i = 0]
                       ELSE SyncEnds(c1, s, FALSE)
    /\ OnlyChunked

\* lines 392-423: the write of chunk i settles; the next chunk waits
\* 300 ms, after the last one cleanupExtraChunks starts removing at n
SyncChunkSet(s) ==
    /\ chunked.sync[s].pc = "s_setChunk"
    /\ \E outcome \in SetOutcomes :
         LET i == chunked.sync[s].i
             c1 == IF Applied(outcome)
                   THEN [chunked EXCEPT
                           !.store.batch[i] = Some(chunked.sync[s].chunks[i + 1])]
                   ELSE chunked
         IN chunked' = IF outcome # "ok" THEN SyncEnds(c1, s, FALSE)
                       ELSE IF i < chunked.sync[s].n - 1
                       THEN [c1 EXCEPT !.sync[s].pc = "s_delay"]
                       ELSE [c1 EXCEPT !.sync[s].pc = "s_removeExtra",
                                       !.sync[s].i = chunked.sync[s].n]
    /\ OnlyChunked

\* lines 418-422: the 300 ms are over, the next chunk write is issued
SyncDelayOver(s) ==
    /\ chunked.sync[s].pc = "s_delay"
    /\ chunked' = [chunked EXCEPT !.sync[s].pc = "s_setChunk", !.sync[s].i = @ + 1]
    /\ OnlyChunked

\* cleanupExtraChunks, lines 530-554: the removal of chunk i settles; a
\* failure ends the loop.  Removals beyond the modelled slots change
\* nothing, so the loop is followed up to the last modelled slot.
SyncExtraRemoved(s) ==
    /\ chunked.sync[s].pc = "s_removeExtra"
    /\ \E outcome \in SetOutcomes :
         LET i == chunked.sync[s].i
             c1 == IF Applied(outcome) /\ i \in ChunkSlots
                   THEN [chunked EXCEPT !.store.batch[i] = None]
                   ELSE chunked
         IN chunked' = IF outcome = "ok" /\ i + 1 < NumChunkSlots
                          /\ i + 1 < chunked.sync[s].n + CLEANUP_LIMIT
                       THEN [c1 EXCEPT !.sync[s].i = i + 1]
                       ELSE SyncEnds(c1, s, TRUE)
    /\ OnlyChunked

\* getChunkedItem returns value: lines 453-456, 465-473, 477-485.  A value
\* found in the cloud replaces the local copy (line 469).
GetReturns(c, value, fromCloud) ==
    LET c1 == IF fromCloud THEN [c EXCEPT !.local = value] ELSE c
    IN [c1 EXCEPT !.get = IdleGet,
                  !.result = [returned |-> TRUE, value |-> value,
                              expect |-> c.get.expect, racing |-> c.get.racing,
                              local |-> c1.local]]

\* getChunkedItemFromCloud found nothing or failed (it returns null, lines
\* 631-673): getChunkedItem falls back to the local copy, lines 477-485
GetFallsBack(c) == GetReturns(c, c.local, FALSE)

\* getChunkedItem up to its first await, lines 443-463: with unsaved
\* changes and a local copy the local copy is returned, else the regular
\* item is read from the cloud
GetChunkedItem ==
    /\ chunked.get.pc = "idle"
    /\ LET c1 == [chunked EXCEPT !.get = [IdleGet EXCEPT !.expect = chunked.lastSet],
                                 !.result = NoResult]
       IN chunked' = IF chunked.hasUnsavedChanges /\ IsSome(chunked.local)
                     THEN GetReturns(c1, chunked.local, FALSE)
                     ELSE [c1 EXCEPT !.get.pc = "g_getRegular"]
    /\ OnlyChunked

\* getChunkedItemFromCloud, lines 624-631: the read of the regular item
\* settles
GetRegularRead ==
    /\ chunked.get.pc = "g_getRegular"
    /\ \E outcome \in GetOutcomes :
         chunked' = IF outcome # "ok" THEN GetFallsBack(chunked)
                    ELSE IF IsSome(chunked.store.regular)
                    THEN GetReturns(chunked, chunked.store.regular, TRUE)
                    ELSE [chunked EXCEPT !.get.pc = "g_getMeta"]
    /\ OnlyChunked

\* getChunkedItemFromCloud, lines 634-655: the read of the metadata settles
GetMetaRead ==
    /\ chunked.get.pc = "g_getMeta"
    /\ \E outcome \in GetOutcomes :
         chunked' = IF outcome # "ok" \/ chunked.store.meta = None
                    THEN GetFallsBack(chunked)
                    ELSE [chunked EXCEPT !.get.pc = "g_getChunk",
                                         !.get.n = Val(chunked.store.meta),
                                         !.get.i = 0, !.get.chunks = <<>>]
    /\ OnlyChunked

\* getChunkedItemFromCloud, lines 658-673: the read of chunk i settles; a
\* missing chunk gives null, the last chunk gives the joined value
GetChunkRead ==
    /\ chunked.get.pc = "g_getChunk"
    /\ \E outcome \in GetOutcomes :
         LET i == chunked.get.i
             chunk == IF i \in ChunkSlots THEN chunked.store.batch[i] ELSE None
             chunks == Append(chunked.get.chunks, Val(chunk))
         IN chunked' = IF outcome # "ok" \/ chunk = None
                       THEN GetFallsBack(chunked)
                       ELSE IF i + 1 < chunked.get.n
                       THEN [chunked EXCEPT !.get.i = i + 1, !.get.chunks = chunks]
                       ELSE GetReturns(chunked, Some(Join(chunks)), TRUE)
    /\ OnlyChunked

NextChunked ==
    \/ \E value \in ChunkedValues : SetChunkedItem(value)
    \/ SyncStarts
    \/ \E s \in SyncIds :
         \/ SyncRegularSet(s)
         \/ SyncCleanMetaRead(s)
         \/ SyncCleanMetaRemoved(s)
         \/ SyncCleanChunkRemoved(s)
         \/ SyncRegularRemoved(s)
         \/ SyncMetaSet(s)
         \/ SyncChunkSet(s)
         \/ SyncDelayOver(s)
         \/ SyncExtraRemoved(s)
    \/ GetChunkedItem
    \/ GetRegularRead
    \/ GetMetaRead
    \/ GetChunkRead

SpecChunked == Init /\ [][NextChunked]_vars

-----------------------------------------------------------------------------
(* The revision tracker on its own: its public methods called in any order *)

TrackerCall(w) ==
    /\ Leave(w, cloud, task, NoReturn)
    /\ Unchanged3 /\ KeepHistory

RevisionInputs == {JSNumber(n) : n \in -1..MaxRev} \cup {JSNaN, JSUndefined}

ErrorInputs ==
    {None, Some("Server has newer data"), Some("No local data"), ErrorMessage("error")}

SetLocalRevision(revision) == TrackerCall(setLocalRevision(World, revision))

SetServerRevision(revision) == TrackerCall(setServerRevision(World, revision))

IncrementLocalRevision ==
    /\ status.revisionLocal < MaxRev
    /\ TrackerCall(incrementLocalRevision(World))

MarkAsSyncing == TrackerCall(markAsSyncing(World))

\* markAsSynced(serverRevision?): the argument is optional
MarkAsSynced(serverRevision) ==
    TrackerCall(IF IsSome(serverRevision)
                THEN markAsSynced(World, Val(serverRevision))
                ELSE markAsSyncedNoArg(World))

MarkSyncFailed(error) == TrackerCall(markSyncFailed(World, error))

MarkDataUpdatedFromServer(serverRevision) ==
    TrackerCall(markDataUpdatedFromServer(World, serverRevision))

TrackerReset == TrackerCall(reset(World))

NextTracker ==
    \/ \E revision \in RevisionInputs : SetLocalRevision(revision)
    \/ \E revision \in RevisionInputs : SetServerRevision(revision)
    \/ IncrementLocalRevision
    \/ MarkAsSyncing
    \/ \E n \in 0..MaxRev : MarkAsSynced(Some(n))
    \/ MarkAsSynced(None)
    \/ \E error \in ErrorInputs : MarkSyncFailed(error)
    \/ \E n \in 0..MaxRev : MarkDataUpdatedFromServer(n)
    \/ TrackerReset
    \/ Reload

SpecTracker == Init /\ [][NextTracker]_vars

-----------------------------------------------------------------------------
(* Claims *)

\* C1: in every reachable state of the revision tracker, hasUnsavedChanges is
\* true exactly when revisionLocal > revisionServer.
C1_UnsavedIffLocalAhead ==
    status.hasUnsavedChanges = (status.revisionLocal > status.revisionServer)

\* C1 witness: after a sync failed, the tracker is dirty behind a server
\* revision that an earlier call had set
C1_Witness ==
    /\ status.hasUnsavedChanges
    /\ status.revisionServer >= 1
    /\ status.revisionLocal > status.revisionServer
    /\ IsSome(status.lastSyncError)

(* Reading a step.  Every action sets ret, so in a step that changes the   *)
(* state, ret'.task = p tells that task p took it.                         *)

\* what tryReadFromCloud would read from cloud c if every read succeeded:
\* the batches the metadata counts (of its layout) joined, None when the
\* metadata or one of them is missing
RemotePayload(c) ==
    IF ~IsSome(c.meta) THEN None
    ELSE LET old == IsOldFormat(Val(c.meta))
             n == IF old THEN Val(c.meta).cardsBatches ELSE Val(c.meta).batches
             read(i) == IF old THEN getOldBatch(c, i) ELSE getBatch(c, i)
         IN
         IF \E i \in 0..(n - 1) : ~IsSome(read(i)) THEN None
         ELSE Some(Join([k \in 1..n |-> Val(read(k - 1))]))

\* task p is called as tryWriteToCloud in this step
EntersWrite(p) ==
    /\ task[p].pc = "idle"
    /\ ret'.task = p
    /\ task'[p].pc = "w_getMeta" \/ ret'.write \in {"throttled", "not_needed"}

\* task p resumes tryReadFromCloud in this step
ReadStep(p) == ret'.task = p /\ task[p].pc \in {"r_getMeta", "r_getBatch"}

\* the metadata a resuming tryReadFromCloud works with
MetaRead(p) ==
    IF task[p].pc # "r_getMeta" THEN Val(task[p].meta)
    ELSE IF IsOldFormat(Val(cloud.meta))
    THEN CloudMetadata(1, Val(cloud.meta).cardsBatches)
    ELSE Val(cloud.meta)

\* total length of the first k of chunks
RECURSIVE LengthUpTo(_, _)
LengthUpTo(chunks, k) ==
    IF k = 0 THEN 0 ELSE LengthUpTo(chunks, k - 1) + Len(chunks[k])

\* data is the chunks laid end to end in index order
IsConcatenation(data, chunks) ==
    /\ Len(data) = LengthUpTo(chunks, Len(chunks))
    /\ \A k \in 1..Len(chunks) : \A j \in 1..Len(chunks[k]) :
         data[LengthUpTo(chunks, k - 1) + j] = chunks[k][j]

\* C2: an unthrottled tryWriteToCloud entered while revisionServer >
\* revisionLocal that returns true has issued no remote write, and on return
\* the local payload equals the payload stored remotely and hasUnsavedChanges
\* is false.  (Entered so, the call returns before its first await.)
C2_ServerAheadPushReads ==
    [][\A p \in Tasks :
         ( /\ EntersWrite(p)
           /\ status.revisionServer > status.revisionLocal
           /\ ret'.write # "throttled"
           /\ ret'.ok )
         => ( /\ cloud' = cloud
              /\ localStorage'.cards_data = RemotePayload(cloud')
              /\ ~status'.hasUnsavedChanges )]_vars

\* C3: when tryWriteToCloud re-reads the remote metadata and finds its
\* revision greater than revisionLocal, it calls markSyncFailed('Server has
\* newer data') and runs tryReadFromCloud without writing; from there to its
\* return the pass writes nothing to the remote store, and it returns true
\* exactly when the read returned a payload, in which case the local payload
\* is that payload and both counters are the revision of the metadata read.
C3_ConflictPullsFromServer ==
    [][\A p \in Tasks :
         /\ ( /\ ret'.task = p
              /\ task[p].pc = "w_getMeta"
              /\ ret'.io = "ok"
              /\ IsSome(cloud.meta)
              /\ Val(cloud.meta).revision > status.revisionLocal )
            => ( /\ cloud' = cloud
                 /\ task'[p].pc = "r_getMeta"
                 /\ task'[p].caller = "write"
                 /\ status'.lastSyncError = Some("Server has newer data")
                 /\ ~status'.isSyncing
                 /\ ret'.write = "none" )
         /\ (ReadStep(p) /\ task[p].caller = "write")
            => ( /\ cloud' = cloud
                 /\ \/ task'[p].pc \in {"r_getMeta", "r_getBatch"}
                       /\ task'[p].caller = "write"
                       /\ ret'.write = "none"
                    \/ /\ task'[p].pc = "idle"
                       /\ ret'.write = "conflict"
                       /\ ret'.ok = IsSome(ret'.data)
                       /\ ret'.ok = (ret'.read = "ok")
                       /\ ret'.ok =>
                            /\ localStorage'.cards_data = ret'.data
                            /\ status'.revisionLocal = MetaRead(p).revision
                            /\ status'.revisionServer = MetaRead(p).revision )]_vars

\* C3 witness: a pass that found the server ahead has pulled its payload
C3_Witness ==
    /\ ret.write = "conflict"
    /\ ret.ok
    /\ status.lastSyncError = Some("Server has newer data")
    /\ status.revisionLocal = status.revisionServer
    /\ localStorage.cards_data = ret.data

\* C4: at no time are two passes of tryWriteToCloud both writing metadata or
\* batches to the remote store.
C4_OneWriterAtATime ==
    Cardinality({p \in Tasks : task[p].pc \in {"w_setMeta", "w_setBatch"}}) <= 1

\* C5: whenever tryReadFromCloud returns a payload for metadata revision r,
\* that payload is one that a pass of tryWriteToCloud wrote in full under
\* revision r.
C5_PulledPayloadWasWritten ==
    [][\A p \in Tasks :
         (ReadStep(p) /\ ret'.read = "ok")
         => <<MetaRead(p).revision, Val(ret'.data)>> \in fullWrites]_vars

\* C6: a tryWriteToCloud call made less than MIN_SYNC_INTERVAL after the
\* previous unthrottled attempt returns false, issues no remote operation and
\* leaves the tracker's status, the stored counters and the local payload
\* unchanged.
C6_ThrottledPushDoesNothing ==
    [][\A p \in Tasks :
         (EntersWrite(p) /\ sinceLastSyncAttempt < MIN_SYNC_INTERVAL)
         => ( /\ ret'.write = "throttled"
              /\ ~ret'.ok
              /\ task' = task
              /\ cloud' = cloud
              /\ status' = status
              /\ localStorage' = localStorage
              /\ sinceLastSyncAttempt' = sinceLastSyncAttempt )]_vars

\* C6 witness: a throttled call has returned while changes are unsaved
C6_Witness ==
    /\ ret.write = "throttled"
    /\ ~ret.ok
    /\ sinceLastSyncAttempt < MIN_SYNC_INTERVAL
    /\ status.hasUnsavedChanges

\* C7: when a write-path tryWriteToCloud of payload p returns true, the
\* remote store holds version-1 metadata whose batches is
\* ceil(len(p) / MAX_CHUNK_SIZE), no stored batch is longer than
\* MAX_CHUNK_SIZE, and what a tryReadFromCloud reads from the store as it is
\* is exactly p.
C7_RoundTrip ==
    [][\A p \in Tasks :
         (ret'.task = p /\ ret'.write = "synced")
         => LET payload == Join(task[p].batches) IN
            /\ IsSome(cloud'.meta)
            /\ Val(cloud'.meta).version = 1
            /\ Val(cloud'.meta).batches =
                 (Len(payload) + MAX_CHUNK_SIZE - 1) \div MAX_CHUNK_SIZE
            /\ \A i \in Slots :
                 IsSome(cloud'.batch[i]) => Len(Val(cloud'.batch[i])) <= MAX_CHUNK_SIZE
            /\ RemotePayload(cloud') = Some(payload)]_vars

\* C8, for the remote writes of the pass (the metadata and the batches):
\* when one fails or times out, the pass issues nothing further, calls
\* markSyncFailed (isSyncing false, lastSyncError set), returns false, and
\* leaves the local payload, revisionLocal and hasUnsavedChanges (true)
\* unchanged.
C8_FailedWriteAborts ==
    [][\A p \in Tasks :
         ( /\ ret'.task = p
           /\ task[p].pc \in {"w_setMeta", "w_setBatch"}
           /\ ret'.io # "ok" )
         => ( /\ task'[p].pc = "idle"
              /\ ret'.write = "failed"
              /\ ~ret'.ok
              /\ ~status'.isSyncing
              /\ IsSome(status'.lastSyncError)
              /\ localStorage'.cards_data = localStorage.cards_data
              /\ status'.revisionLocal = status.revisionLocal
              /\ status.hasUnsavedChanges
              /\ status'.hasUnsavedChanges )]_vars

\* C9: tryReadFromCloud returns null when the metadata record is absent or
\* when a batch with index below batches is missing, and then the local
\* payload, both counters (stored ones too) and hasUnsavedChanges are as
\* they were.
C9_AbsentLeavesLocalUntouched ==
    [][\A p \in Tasks :
         ReadStep(p) =>
           /\ ( /\ ret'.io = "ok"
                /\ \/ task[p].pc = "r_getMeta" /\ cloud.meta = None
                   \/ task[p].pc = "r_getBatch" /\ cloud.batch[task[p].i] = None )
              => ret'.read \in {"no_meta", "missing_batch"}
           /\ ret'.read \in {"no_meta", "missing_batch"}
              => ( /\ ret'.data = None
                   /\ task'[p].pc = "idle"
                   /\ localStorage' = localStorage
                   /\ status'.revisionLocal = status.revisionLocal
                   /\ status'.revisionServer = status.revisionServer
                   /\ status'.hasUnsavedChanges = status.hasUnsavedChanges )]_vars

\* C9 witness: a read has stopped at a missing batch, local data in place
C9_Witness ==
    /\ ret.read = "missing_batch"
    /\ ret.data = None
    /\ IsSome(cloud.meta)
    /\ IsSome(localStorage.cards_data)
    /\ status.hasUnsavedChanges

\* C10: tryReadFromCloud reads the batches in index order; when it has read
\* the metadata with revision r and every batch 0 .. batches-1, it returns
\* their concatenation in index order, the local payload becomes that
\* concatenation, and the tracker ends with revisionLocal = revisionServer = r
\* and hasUnsavedChanges false.
C10_PullOverwritesLocal ==
    [][\A p \in Tasks :
         (ReadStep(p) /\ task[p].pc = "r_getBatch") =>
           LET i == task[p].i
               chunks == Append(task[p].batches, Val(cloud.batch[i]))
               r == MetaRead(p).revision
           IN
           /\ Len(task[p].batches) = i
           /\ (ret'.io = "ok" /\ IsSome(cloud.batch[i]))
              => IF i + 1 < MetaRead(p).batches
                 THEN task'[p].batches = chunks /\ task'[p].i = i + 1
                 ELSE ret'.read = "ok"
           /\ ret'.read = "ok"
              => ( /\ IsSome(ret'.data)
                   /\ IsConcatenation(Val(ret'.data), chunks)
                   /\ Len(chunks) = MetaRead(p).batches
                   /\ localStorage'.cards_data = ret'.data
                   /\ status'.revisionLocal = r
                   /\ status'.revisionServer = r
                   /\ ~status'.hasUnsavedChanges )]_vars

\* C10 witness: a payload of several batches has been read and stored, and
\* both counters are the revision read
C10_Witness ==
    /\ ret.read = "ok"
    /\ IsSome(ret.data)
    /\ Len(Val(ret.data)) > MAX_CHUNK_SIZE
    /\ localStorage.cards_data = ret.data
    /\ status.revisionLocal = status.revisionServer
    /\ status.revisionLocal >= 1

\* C11: with saves, pushes, pulls (forced reads too) and no explicit reset,
\* revisionLocal never decreases from one state to the next (being
\* overwritten by a server revision that is not smaller is no decrease).
C11_LocalRevisionNeverDecreases ==
    [][status'.revisionLocal >= status.revisionLocal]_vars

\* C12: each incrementLocalRevision raises revisionLocal by exactly 1 (the
\* stored counter with it), leaves revisionServer unchanged, and leaves
\* hasUnsavedChanges true as soon as revisionLocal > revisionServer.
C12_IncrementRaisesByOne ==
    [][IncrementLocalRevision =>
         /\ status'.revisionLocal = status.revisionLocal + 1
         /\ localStorage'.cards_revision = Some(NumToString(status.revisionLocal + 1))
         /\ status'.revisionServer = status.revisionServer
         /\ localStorage'.cards_server_revision = localStorage.cards_server_revision
         /\ (status'.revisionLocal > status'.revisionServer)
              => status'.hasUnsavedChanges]_vars

\* C12 witness: revisionLocal has just passed a positive revisionServer and
\* the flag is up
C12_Witness ==
    /\ status.revisionServer >= 1
    /\ status.revisionLocal = status.revisionServer + 1
    /\ status.hasUnsavedChanges
    /\ localStorage.cards_revision = Some(NumToString(status.revisionLocal))

\* C13: whatever setLocalRevision and setServerRevision are given, both
\* counters are non-negative integers and are stored with the same value.
C13_CountersNonNegative ==
    /\ status.revisionLocal >= 0
    /\ status.revisionServer >= 0
    /\ IsSome(localStorage.cards_revision)
         => localStorage.cards_revision = Some(NumToString(status.revisionLocal))
    /\ IsSome(localStorage.cards_server_revision)
         => localStorage.cards_server_revision = Some(NumToString(status.revisionServer))

\* C17: saveDataLocally(data, incrementRevision) stores data as cards_data,
\* raises revisionLocal by 1 exactly when incrementRevision is true, and
\* returns with no remote operation issued; a tryWriteToCloud is scheduled
\* (one more timeout pending) exactly when revisionLocal > revisionServer
\* after the save.  The push runs in later steps of its own: when it fails it
\* returns false with lastSyncError set and the saved data and revisionLocal
\* in place.
C17_SaveReturnsBeforePush ==
    [][/\ \A data \in Payloads, incrementRevision \in BOOLEAN :
            SaveDataLocally(data, incrementRevision) =>
              /\ localStorage'.cards_data = Some(data)
              /\ status'.revisionLocal =
                   status.revisionLocal + (IF incrementRevision THEN 1 ELSE 0)
              /\ task' = task
              /\ cloud' = cloud
              /\ ret'.write = "none" /\ ret'.read = "none"
              /\ pendingTimeouts' =
                   pendingTimeouts +
                     (IF status'.revisionLocal > status'.revisionServer THEN 1 ELSE 0)
       /\ \A p \in Tasks :
            (ret'.task = p /\ ret'.write \in {"failed", "no_local_data"})
              => /\ ~ret'.ok
                 /\ task'[p].pc = "idle"
                 /\ IsSome(status'.lastSyncError)
                 /\ localStorage'.cards_data = localStorage.cards_data
                 /\ status'.revisionLocal = status.revisionLocal
                 /\ pendingTimeouts' = pendingTimeouts]_vars

\* C17 witness: a save has scheduled a push that has not started yet
C17_Witness ==
    /\ pendingTimeouts > 0
    /\ IsSome(localStorage.cards_data)
    /\ status.hasUnsavedChanges
    /\ \A p \in Tasks : task[p].pc = "idle"
    /\ cloud = EmptyCloud

\* C18: at most one periodic timer is live, and the handle tells whether one
\* is (a tick calls tryWriteToCloud only while a timer is live, so with the
\* handle cleared no tick starts a push); startPeriodicSync while one is
\* running changes nothing; stopPeriodicSync leaves no timer live and leaves
\* the passes in flight as they are.
C18_OnePeriodicTimer ==
    /\ [](activeTimers <= 1 /\ (periodicSyncInterval <=> activeTimers = 1))
    /\ [][/\ (StartPeriodicSync /\ periodicSyncInterval)
               => UNCHANGED <<status, localStorage, cloud, task, periodicSyncInterval,
                              activeTimers, pendingTimeouts, sinceLastSyncAttempt>>
          /\ StartPeriodicSync => (periodicSyncInterval' /\ activeTimers' = 1)
          /\ StopPeriodicSync =>
               (~periodicSyncInterval' /\ activeTimers' = 0 /\ task' = task)]_vars

\* C18 witness: the timer runs while a pass is in flight
C18_Witness ==
    /\ periodicSyncInterval
    /\ activeTimers = 1
    /\ \E p \in Tasks : task[p].pc = "w_setBatch"

(* Reading a step of initializeStorage *)

\* where a task of initializeStorage waits before its decision is taken
BeforeDecision ==
    {"i_getMeta", "i_getMeta2", "m_getMeta", "m_getBatch", "m_setMeta", "m_setBatch"}

\* task p runs lines 584-621 of initializeStorage in this step
DecidesIn(p) ==
    /\ ret'.task = p
    /\ task[p].caller = "init"
    /\ task[p].pc \in BeforeDecision
    /\ task'[p].pc \in {"idle", "r_getMeta"}

\* the returns of initializeStorage
InitReturnPaths ==
    {"seeded", "remote", "local_fallback", "seeded_after_read", "local_ahead",
     "error_local", "error_seeded"}

\* the returns of its catch block, and the call rejecting from there
InitErrorPaths == {"error_local", "error_seeded", "rejected"}

\* the local revision as localStorage holds it (lines 525-526 read it so)
StoredLocalRevision(ls) ==
    IF Truthy(ls.cards_revision) THEN ParseInt(Val(ls.cards_revision)) ELSE 0

\* localStorage holds the payload and the revision that task p read when
\* its initializeStorage began (so it is whenever no other call ran since)
LocalAsRead(p) ==
    /\ localStorage.cards_data = task[p].localData
    /\ StoredLocalRevision(localStorage) = task[p].parsedLocalRevision

AfterInitPull(p) ==
    ( /\ ReadStep(p)
      /\ task[p].caller = "init"
      /\ task'[p].pc = "idle" )
    => IF Truthy(ret'.data)
       THEN ret'.init = "remote" /\ ret'.initData = ret'.data
       ELSE IF Truthy(task[p].localData)
       THEN /\ ret'.init = "local_fallback"
            /\ ret'.initData = task[p].localData
            /\ localStorage'.cards_data = localStorage.cards_data
       ELSE /\ ret'.init = "seeded_after_read"
            /\ ret'.initData = Some(DEMO_TSV)
            /\ localStorage'.cards_data = Some(DEMO_TSV)

\* initializeStorage calls tryReadFromCloud in this step
StartsInitPull(p) ==
    /\ task'[p].pc = "r_getMeta"
    /\ task'[p].caller = "init"
    /\ ret'.init = "none"

C16_TimerRunsOnReturn ==
    [][\A p \in Tasks :
         (ret'.task = p /\ ret'.init \in InitReturnPaths)
         => ( /\ periodicSyncInterval'
              /\ activeTimers' = 1
              /\ task'[p].pc = "idle"
              /\ IsSome(ret'.initData) )]_vars

\* C16 witness: initializeStorage has returned from its catch block with
\* the timer started
C16_Witness ==
    /\ ret.init = "error_local"
    /\ periodicSyncInterval
    /\ activeTimers = 1

\* C19: when migrateOldDataToNewFormat has read every old batch, the new
\* batches it cuts hold the data of the old layout; when it returns true the
\* remote store holds metadata {version 1, revision 1, batches n}, a read of
\* it gives that data, no old batch key is left, and revisionServer is 1.
C19_MigrationKeepsPayload ==
    [][\A p \in Tasks :
         /\ ( /\ ret'.task = p
              /\ task[p].pc = "m_getBatch"
              /\ task'[p].pc = "m_setMeta" )
            => ( /\ Some(Join(task'[p].batches)) = RemotePayload(cloud)
                 /\ \A k \in 1..Len(task'[p].batches) :
                      Len(task'[p].batches[k]) \in 1..MAX_CHUNK_SIZE )
         /\ (ret'.task = p /\ ret'.migrated = "true")
            => ( /\ cloud'.meta = Some(CloudMetadata(1, Len(task[p].batches)))
                 /\ RemotePayload(cloud') = Some(Join(task[p].batches))
                 /\ \A i \in Slots : cloud'.oldBatch[i] = None
                 /\ status'.revisionServer = 1 )]_vars

\* C20: a migrateOldDataToNewFormat that finds the metadata in the new
\* format (as a migration leaves it) returns false on its first step with
\* the remote store, the tracker and localStorage as they were, and issues
\* nothing further; initializeStorage does not call it on such metadata.
C20_SecondMigrationDoesNothing ==
    [][\A p \in Tasks :
         /\ ( /\ ret'.task = p
              /\ task[p].pc = "m_getMeta"
              /\ task[p].caller = "ui"
              /\ IsSome(cloud.meta)
              /\ HasRevision(Val(cloud.meta)) )
            => ( /\ ret'.migrated = "false"
                 /\ task'[p].pc = "idle"
                 /\ cloud' = cloud
                 /\ status' = status
                 /\ localStorage' = localStorage )
         /\ ( /\ ret'.task = p
              /\ task[p].pc = "i_getMeta"
              /\ IsSome(cloud.meta)
              /\ HasRevision(Val(cloud.meta)) )
            => ( /\ task'[p].pc \in {"idle", "r_getMeta"}
                 /\ ret'.migrated = "none"
                 /\ cloud' = cloud )]_vars

\* C20 witness: after a migration (the metadata is of revision 1 in the new
\* format, the tracker agrees) a second one has returned false
C20_Witness ==
    /\ ret.migrated = "false"
    /\ ret.io = "ok"
    /\ cloud.meta = Some(CloudMetadata(1, 1))
    /\ IsSome(RemotePayload(cloud))
    /\ status.revisionServer = 1

\* C21: for every payload and every chunk size n >= 1, the batches cut from
\* the payload are slices of it taken in order from offset 0 (laid end to
\* end they give the payload, by offsets), every slice has between 1 and n
\* characters, every slice but the last has n, a payload that is not empty
\* has at least one slice, and the join of the batches is the payload.
C21_SplitJoinRoundTrip ==
    /\ IsSome(splitter.batches)
         => LET batches == Val(splitter.batches)
                n == splitter.size
                data == splitter.localData
            IN /\ IsConcatenation(data, batches)
               /\ \A k \in 1..Len(batches) : Len(batches[k]) \in 1..n
               /\ \A k \in 1..(Len(batches) - 1) : Len(batches[k]) = n
               /\ data # <<>> => Len(batches) >= 1
               /\ Len(batches) = (Len(data) + n - 1) \div n
    /\ IsSome(splitter.fullData) => Val(splitter.fullData) = splitter.localData

\* C21 witness: a payload of two different characters cut in three, the
\* last slice shorter, and joined again
C21_Witness ==
    /\ splitter.size = 2
    /\ splitter.localData = <<1, 2, 2, 1, 2>>
    /\ splitter.batches = Some(<<<<1, 2>>, <<2, 1>>, <<2>>>>)
    /\ splitter.fullData = Some(<<1, 2, 2, 1, 2>>)

\* C22: a pass of tryWriteToCloud that has re-read the metadata and finds
\* the local payload empty with revisionLocal > revisionServer goes on to
\* record it as zero batches: it does not end there, and it issues the
\* write of metadata with batches = 0.
C22_EmptyPayloadIsPushed ==
    [][\A p \in Tasks :
         ( /\ ret'.task = p
           /\ task[p].pc = "w_getMeta"
           /\ localStorage.cards_data = Some(<<>>)
           /\ status'.revisionLocal > status'.revisionServer )
         => ( /\ ret'.write = "none"
              /\ task'[p].pc = "w_setMeta"
              /\ task'[p].batches = <<>>
              /\ task'[p].newRevision = status'.revisionLocal )]_vars

\* C23: when the timer of a remote set, get or remove fires before the
\* backend's callback has been invoked, the call is rejected with
\* 'Operation timed out'; once the call has settled nothing changes how (a
\* callback arriving after the expiry does not); and the caller's await
\* throws on a rejected call, whether or not the backend carries the
\* request out, then or later.
C23_TimeoutFailsTheCall ==
    [][/\ ( /\ call.timeout = "pending" /\ call'.timeout = "rejected"
            /\ call.backend \in {"received", "applied"} )
          => (call'.race = "rejected" /\ call'.error = TimedOut)
       /\ (call.race # "pending" /\ ~(call.awaited /\ ~call'.awaited))
          => ( /\ call'.race = call.race
               /\ call'.error = call.error
               /\ call'.result = call.result )
       /\ (~call.awaited /\ call'.awaited /\ call.race = "rejected")
          => ( /\ ~ret'.ok
               /\ ret'.io \in {"error", "timeout_applied"}
               /\ ret'.data = None )]_vars

\* C23 witness: a setItem timed out, its caller was told so, and
\* afterwards the backend stored the value and invoked the callback
C23_Witness ==
    /\ call.op = "set"
    /\ call.race = "rejected"
    /\ call.error = TimedOut
    /\ call.awaited
    /\ ~ret.ok
    /\ call.backend = "answered"
    /\ call.operation = "resolved"
    /\ cloud.batch[call.key] = Some(call.value)

\* C24: when getKeys has given the keys, every removeItem has settled, and
\* some of the keys are gone while others are left (their removal failed),
\* clear() has resolved.
C24_ClearIsBestEffort ==
    ( /\ clearing.state = "done"
      /\ clearing.enumerated \ Keys(cloud) # {}
      /\ clearing.enumerated \cap Keys(cloud) # {} )
    => ( /\ clearing.promise = "resolved"
         /\ clearing.removing = {} )

-----------------------------------------------------------------------------
\* C26: a getChunkedItem issued after setChunkedItem(key, v) has returned
\* (and with no further setChunkedItem before it returns) yields v and
\* leaves v as the local copy, whatever the background syncs have done
C26_ReadYourWrites ==
    (/\ chunked.result.returned
     /\ IsSome(chunked.result.expect)
     /\ ~chunked.result.racing)
    => /\ chunked.result.value = chunked.result.expect
       /\ chunked.result.local = chunked.result.expect

-----------------------------------------------------------------------------
\* C27: within one pass of tryWriteToCloud the metadata record, carrying
\* the local revision the pass read, is written and acknowledged before
\* the write of batch 0 is issued; the write of batch i+1 is issued only
\* when the write of batch i has been acknowledged; the removals start only
\* when the last batch has been acknowledged.  So the pass has one remote
\* write in flight at a time and writes its batches in the order 0..n-1.
C27_WritesInOrder ==
    [][\A p \in Tasks :
         LET n == Len(task[p].batches)
             i == task[p].i
         IN
         \* the metadata write is issued with the revision read in this step
         /\ (task'[p].pc = "w_setMeta" /\ task[p].pc # "w_setMeta")
            => /\ task[p].pc = "w_getMeta"
               /\ task'[p].newRevision = status'.revisionLocal
         \* the first batch write is issued
         /\ (task'[p].pc = "w_setBatch" /\ task[p].pc # "w_setBatch")
            => /\ task[p].pc = "w_setMeta"
               /\ ret'.task = p /\ ret'.io = "ok"
               /\ cloud'.meta = Some(CloudMetadata(task[p].newRevision, n))
               /\ task'[p].i = 0
               /\ task'[p].batches = task[p].batches
         \* the next batch write is issued
         /\ (task'[p].pc = "w_setBatch" /\ task[p].pc = "w_setBatch")
            => \/ task'[p] = task[p]
               \/ /\ ret'.task = p /\ ret'.io = "ok"
                  /\ task'[p].i = i + 1
                  /\ i + 1 < n
                  /\ cloud'.batch[i] = Some(task[p].batches[i + 1])
                  /\ task'[p].batches = task[p].batches
         \* the removals start
         /\ (task'[p].pc = "w_remove" /\ task[p].pc # "w_remove")
            => /\ task[p].pc = "w_setBatch"
               /\ ret'.task = p /\ ret'.io = "ok"
               /\ i = n - 1
               /\ cloud'.batch[i] = Some(task[p].batches[i + 1])
         \* a step of the pass changes no batch but the one it has in flight
         /\ (ret'.task = p /\ task[p].pc \in {"w_getMeta", "w_setMeta"})
            => cloud'.batch = cloud.batch
         /\ (ret'.task = p /\ task[p].pc = "w_setBatch")
            => \A j \in Slots : j # i => cloud'.batch[j] = cloud.batch[j]
      ]_vars

\* a pass has had its metadata and its two batches acknowledged in turn
C27_Witness ==
    \E p \in Tasks :
      /\ task[p].pc = "w_remove"
      /\ Len(task[p].batches) = 2
      /\ ret.task = p /\ ret.io = "ok"
      /\ cloud.meta = Some(CloudMetadata(task[p].newRevision, 2))
      /\ cloud.batch[0] = Some(task[p].batches[1])
      /\ cloud.batch[1] = Some(task[p].batches[2])

-----------------------------------------------------------------------------
\* C28: when a pass of tryWriteToCloud that wrote n batches returns true,
\* the remote store holds no batch of index n or more
C28_NoTrailingBatches ==
    [][\A p \in Tasks :
         (ret'.task = p /\ ret'.write = "synced")
         => \A j \in Slots : j >= Len(task[p].batches) => cloud'.batch[j] = None
      ]_vars

-----------------------------------------------------------------------------
\* the positions of a pass of tryWriteToCloud between its awaits
WritePcs == {"w_getMeta", "w_setMeta", "w_setBatch", "w_remove"}

\* the world tryWriteToCloud has at line 786, the metadata read having
\* settled with io: the server revision found is adopted (lines 773-779)
AfterMetaRead(io) ==
    IF io = "ok" /\ IsSome(cloud.meta)
    THEN setServerRevision(World, MetaRevision(Val(cloud.meta)))
    ELSE World

\* revisionLocal, revisionServer and hasUnsavedChanges are in s2 what they
\* are in s1
SameCounters(s1, s2) ==
    /\ s2.revisionLocal = s1.revisionLocal
    /\ s2.revisionServer = s1.revisionServer
    /\ s2.hasUnsavedChanges = s1.hasUnsavedChanges

\* C29: a pass of tryWriteToCloud that is not throttled marks the status
\* syncing at its start (isSyncing true, lastSyncError cleared), leaves
\* isSyncing and lastSyncError alone while it runs, and ends with isSyncing
\* false: through markAsSynced (lastSyncError cleared) or through
\* markSyncFailed (lastSyncError set), and markSyncFailed changes neither
\* revisionLocal, revisionServer nor hasUnsavedChanges
C29_SyncingThenSyncedOrFailed ==
    [][\A p \in Tasks :
         \* the start: markAsSyncing
         /\ (task[p].pc = "idle" /\ task'[p].pc = "w_getMeta")
            => /\ status'.isSyncing
               /\ status'.lastSyncError = None
               /\ SameCounters(status, status')
         \* the pass goes on
         /\ (ret'.task = p /\ task[p].pc \in WritePcs /\ task'[p].pc \in WritePcs)
            => /\ status'.isSyncing = status.isSyncing
               /\ status'.lastSyncError = status.lastSyncError
         \* Synced
         /\ (ret'.task = p /\ ret'.write \in {"synced", "not_needed"})
            => /\ ~status'.isSyncing
               /\ status'.lastSyncError = None
               /\ ret'.ok
         \* Failed: the catch block
         /\ (ret'.task = p /\ ret'.write = "failed")
            => /\ task[p].pc \in WritePcs
               /\ ~status'.isSyncing
               /\ IsSome(status'.lastSyncError)
               /\ SameCounters(status, status')
               /\ ~ret'.ok
         \* Failed: no local data, or the server is ahead and the pass goes
         \* on to read
         /\ (ret'.task = p /\ task[p].pc = "w_getMeta"
               /\ (ret'.write = "no_local_data" \/ task'[p].pc = "r_getMeta"))
            => /\ ~status'.isSyncing
               /\ IsSome(status'.lastSyncError)
               /\ SameCounters(AfterMetaRead(ret'.io).status, status')
         \* the read of the conflict branch leaves the status idle
         /\ (ret'.task = p /\ ret'.write = "conflict")
            => (~status.isSyncing => ~status'.isSyncing)
         \* every end of a pass is one of these
         /\ (ret'.task = p /\ task[p].pc \in WritePcs /\ task'[p].pc \notin WritePcs)
            => \/ ret'.write \in {"synced", "failed", "no_local_data"}
               \/ task'[p].pc = "r_getMeta"
      ]_vars

\* a pass has failed with unsaved changes, which the status still shows
C29_Witness ==
    /\ ret.write = "failed"
    /\ ret.task \in Tasks
    /\ ~status.isSyncing
    /\ IsSome(status.lastSyncError)
    /\ status.hasUnsavedChanges
    /\ status.revisionLocal > status.revisionServer

-----------------------------------------------------------------------------
\* C30: the callback of the periodic timer calls tryWriteToCloud only when,
\* at the tick, needsCloudWrite() is true and isSyncing is false; a tick
\* that finds revisionLocal <= revisionServer or isSyncing true issues no
\* remote operation and changes no state
C30_TickPushesOnlyWhenNeeded ==
    [][/\ ret'.tick = "pushed"
          => /\ status.revisionLocal > status.revisionServer
             /\ ~status.isSyncing
             /\ activeTimers > 0
       /\ ret'.tick = "skipped"
          => /\ status.revisionLocal <= status.revisionServer \/ status.isSyncing
             /\ UNCHANGED <<status, localStorage, cloud, task, sinceLastSyncAttempt,
                            periodicSyncInterval, activeTimers, pendingTimeouts>>
       /\ (ret'.tick # "none"
             /\ (status.revisionLocal <= status.revisionServer \/ status.isSyncing))
          => /\ ret'.tick = "skipped"
             /\ ret'.task = 0
             /\ cloud' = cloud /\ task' = task
      ]_vars

\* a tick was skipped although the local revision was ahead, because a
\* pass was syncing
C30_Witness ==
    /\ ret.tick = "skipped"
    /\ activeTimers > 0
    /\ status.isSyncing
    /\ status.revisionLocal > status.revisionServer
    /\ \E p \in Tasks : task[p].pc \in WritePcs

-----------------------------------------------------------------------------
\* C31: a pass of tryWriteToCloud reads the payload it uploads together
\* with the local revision k it writes into the metadata; when it succeeds
\* it sets revisionServer to k, the remote store holds that payload under
\* revision k, and if a save has raised revisionLocal above k meanwhile,
\* then revisionLocal > revisionServer and hasUnsavedChanges is true after
\* the pass
C31_SyncedToTheRevisionWritten ==
    [][\A p \in Tasks :
         /\ (ret'.task = p /\ task[p].pc = "w_getMeta" /\ task'[p].pc = "w_setMeta")
            => /\ task'[p].newRevision = status.revisionLocal
               /\ status'.revisionLocal = status.revisionLocal
               /\ Some(Join(task'[p].batches)) = localStorage.cards_data
         /\ (ret'.task = p /\ ret'.write = "synced")
            => /\ status'.revisionServer = task[p].newRevision
               /\ status'.revisionLocal = status.revisionLocal
               /\ IsSome(cloud'.meta)
               /\ MetaRevision(Val(cloud'.meta)) = JSNumber(task[p].newRevision)
               /\ RemotePayload(cloud') = Some(Join(task[p].batches))
               /\ status.revisionLocal > task[p].newRevision
                  => /\ status'.revisionLocal > status'.revisionServer
                     /\ status'.hasUnsavedChanges
      ]_vars

-----------------------------------------------------------------------------
\* the tracker says synced and the remote batches, joined, are the local
\* payload
InSync ==
    /\ status.revisionServer = status.revisionLocal
    /\ ~status.hasUnsavedChanges
    /\ RemotePayload(cloud) = localStorage.cards_data

\* C32: with the periodic timer running, nothing saved any more and every
\* remote call succeeding, a state with revisionLocal > revisionServer is
\* eventually followed by one where the counters are equal,
\* hasUnsavedChanges is false and the remote batches make up the local
\* payload
C32_EventuallySynced ==
    [](( /\ activeTimers > 0
         /\ status.revisionLocal > status.revisionServer ) => <>InSync)

-----------------------------------------------------------------------------
\* the revision the remote metadata carries, 0 when there is none
RemoteRevision(c) ==
    IF IsSome(c.meta) /\ HasRevision(Val(c.meta)) THEN Val(c.meta).revision ELSE 0

\* C33: a pass of tryWriteToCloud issues its metadata write only when its
\* own read of the remote metadata succeeded and found none, or one of a
\* revision below revisionLocal; and the revision in the remote metadata
\* never decreases
C33_WritesOnlyOverOlder ==
    [][/\ \A p \in Tasks :
            (ret'.task = p /\ task[p].pc = "w_getMeta" /\ task'[p].pc = "w_setMeta")
            => /\ ret'.io = "ok"
               /\ \/ cloud.meta = None
                  \/ RemoteRevision(cloud) < status.revisionLocal
       /\ RemoteRevision(cloud') >= RemoteRevision(cloud)
      ]_vars

-----------------------------------------------------------------------------
\* C34: a pass of tryWriteToCloud that uploads the demo cards seeded by
\* initializeStorage does not write its metadata over a remote store that
\* holds, under metadata of revision 1 or more, a payload of its own
C34_SeedNeverOverwritesRemote ==
    [][\A p \in Tasks :
         ( /\ ret'.task = p
           /\ task[p].pc = "w_setMeta"
           /\ Join(task[p].batches) = DEMO_TSV
           /\ cloud'.meta # cloud.meta )
         => ~( /\ RemoteRevision(cloud) >= 1
               /\ IsSome(RemotePayload(cloud))
               /\ RemotePayload(cloud) # Some(DEMO_TSV) )
      ]_vars

-----------------------------------------------------------------------------
\* a pass of tryWriteToCloud that is waiting for one of its remote
\* operations: the metadata read, the writes, the removals of the cleanup,
\* or the reads of tryReadFromCloud called from its conflict branch
PassInFlight(t) ==
    \/ t.pc \in WritePcs
    \/ t.pc \in {"r_getMeta", "r_getBatch"} /\ t.caller = "write"

\* C35: every step of a pass of tryWriteToCloud (its start, the settling of
\* one of its remote operations, the read of its conflict branch included)
\* leaves isSyncing true when it leaves some pass in flight
C35_SyncingWhileInFlight ==
    [][\A p \in Tasks :
         (ret'.task = p /\ (PassInFlight(task[p]) \/ PassInFlight(task'[p])))
         => \A q \in Tasks : PassInFlight(task'[q]) => status'.isSyncing
      ]_vars

-----------------------------------------------------------------------------
\* C36: in every state in which no push and no pull is in flight, the two
\* revisions of the tracker are equal and at least 1, and the remote
\* metadata carries that revision, the local payload is the concatenation
\* of the remote batches 0 .. batches - 1
C36_SyncedMeansEqual ==
    ( /\ \A p \in Tasks : task[p].pc = "idle"
      /\ status.revisionLocal = status.revisionServer
      /\ status.revisionLocal >= 1
      /\ IsSome(cloud.meta)
      /\ RemoteRevision(cloud) = status.revisionLocal )
    => RemotePayload(cloud) = localStorage.cards_data

-----------------------------------------------------------------------------
\* C37: when migrateOldDataToNewFormat returns false because the write of
\* the new metadata or of a new batch was rejected, the remote store either
\* still has the old metadata (a further migration starts over) or gives,
\* read through its metadata, the whole payload of the old layout
C37_FailedMigrationKeepsPayload ==
    [][\A p \in Tasks :
         ( /\ ret'.task = p
           /\ task[p].pc \in {"m_setMeta", "m_setBatch"}
           /\ ret'.migrated = "false" )
         => /\ IsSome(cloud'.meta)
            /\ \/ IsOldFormat(Val(cloud'.meta))
               \/ RemotePayload(cloud') = Some(Join(task[p].batches))
      ]_vars

-----------------------------------------------------------------------------
\* a counter as loadRevisions reads it from localStorage: 0 when the key is
\* absent, parseInt(text, 10) || 0 otherwise
PersistedRevision(stored) == IF IsSome(stored) THEN ParseInt(Val(stored)) ELSE 0

====
